---------------------------- MODULE Spec2Model ----------------------------
(***************************************************************************)
(* State-machine model of the Sanity edge fetcher:                         *)
(*   core.ts   EdgeRateLimiter, edgeSanityFetch, sanityFetch,              *)
(*             sanityFetchWithFallback, sanityFetchStatic,                 *)
(*             sanityFetchAuthenticated                                    *)
(*   cache.ts  generateCacheKey, MemoryCache, cachedSanityFetch            *)
(*                                                                         *)
(* JavaScript runs one task at a time, so every action below is the code   *)
(* between two await points of one async call.  Each call slot c holds one *)
(* call in progress; slots are reused when a call has settled.             *)
(***************************************************************************)
EXTENDS Integers, Sequences, FiniteSets, TLC

\* ------------------------------------------------------------------ bounds
NumCalls == 2          \* call slots (calls that may overlap)
GateMaxTicks == 6      \* clock horizon of SpecGate, in ticks of GateTickMs
CacheMaxTicks == 3     \* clock horizon of Spec, in ticks of CacheTickMs
StampMaxTicks == 3     \* clock horizon of SpecStamp, in ms

\* -------------------------------------------------------- program constants
minInterval == 100     \* EdgeRateLimiter.minInterval, in ms

\* The clock reads milliseconds since 1970, so the first throttle() ever made
\* finds now - lastRequest (lastRequest = 0) far above minInterval.
Epoch == 10 * minInterval
GateTickMs == minInterval \div 2

Calls == 1..NumCalls
None == -1

VARIABLES
  now,          \* Date.now()
  lastRequest,  \* EdgeRateLimiter.lastRequest
  pc,           \* pc[c]: where call c stands
  kind,         \* kind[c]: the entry point call c runs
  wakeAt,       \* wakeAt[c]: when the setTimeout of throttle() is due
  fopts,        \* fopts[c]: {useCdn, useAuth} of the edgeSanityFetch in progress
  issued,       \* issued[c]: the HTTP requests call c has issued, in order
  ret,          \* ret[c]: what call c settled with
  draftLookup,  \* draftLookup[c]: what draftMode() of next/headers did for c
  replies,      \* history: the responses call c received, in order
  memory,       \* MemoryCache.cache: the entries in Map (insertion) order
  redisStore,   \* the entries the Upstash Redis store holds, by key
  nextStore,    \* the entries the data cache of unstable_cache holds, by key
  env,          \* what the module found at load time: redis, next/cache
  copts,        \* copts[c]: cacheKey and cache options of cachedSanityFetch
  memoryResult, \* memoryResult[c] of cachedSanityFetch
  redisEntry,   \* redisEntry[c] of cachedSanityFetch
  result,       \* result[c] of cachedSanityFetch
  entry,        \* entry[c]: the CacheEntry being written to Redis
  inTry,        \* inTry[c]: edgeSanityFetch runs inside the try of the wrapper
  did,          \* history: what call c did to the cache layers
  lastDone,     \* history: the cached call that completed just now
  expect,       \* history: expect[c], the value a repeated call should return
  floor,        \* history: the latest throttle completion when c entered throttle()
  compAt,       \* history: when the latest throttle() of c returned
  slept,        \* history: whether that throttle() slept
  lastComp,     \* history: time of the latest throttle completion
  config,       \* process.env: is the project id set, is a viewer token set
  forceAuth,    \* forceAuth[c]: options.forceAuth of sanityFetch
  sent,         \* sent[c]: the HTTP requests c passed to fetch(), as built
  response,     \* response[c]: the Response that fetch() resolved with
  consumed,     \* history: consumed[c], the body of response[c] has been read
  message,      \* message[c]: the message of the Error c failed with
  keyArgs,      \* keyArgs[i]: the arguments of the i-th generateCacheKey call
  keys,         \* keys[i]: the key that call returned
  servedAt,     \* history: servedAt[c], when c returned a cached entry
  accessed,     \* history: accessed[k], the operation that last used key k
  opCount,      \* history: the MemoryCache operations made so far
  lastOp,       \* history: the latest MemoryCache operation
  fan,          \* the warmSanityCache or batchSanityFetch call in progress
  results,      \* results of batchSanityFetch, by query key
  clear,        \* the clearSanityCache call in progress
  origin,       \* the published document the query matches at the origin
  inFlight      \* inFlight[c]: the origin's answer to c's request, in transit

gateVars == <<lastRequest, wakeAt, fopts, issued, floor, compAt, slept,
              lastComp>>
fbVars   == <<draftLookup, replies>>
storeVars == <<memory, redisStore, nextStore, env>>
callVars  == <<copts, memoryResult, redisEntry, result, entry, inTry, did,
               expect, servedAt>>
cacheVars == <<storeVars, callVars, lastDone>>
entryVars == <<config, forceAuth, sent, response, consumed, message>>
keyVars == <<keyArgs, keys>>
lruVars == <<accessed, opCount, lastOp>>
fanVars == <<fan, results>>
originVars == <<origin, inFlight>>
auxVars == <<lruVars, fanVars, clear, originVars>>
vars == <<now, pc, kind, ret, gateVars, fbVars, cacheVars, entryVars, keyVars,
          auxVars>>

\* ------------------------------------------------------------- JSON values
\* A query result (data.result): t is the JSON type, n the number, the length
\* of the string or array, or the identity of the document.
Null     == [t |-> "null", n |-> 0]
Zero     == [t |-> "num",  n |-> 0]
EmptyStr == [t |-> "str",  n |-> 0]
False    == [t |-> "bool", n |-> 0]
EmptyArr == [t |-> "arr",  n |-> 0]
DocA     == [t |-> "obj",  n |-> 1]
DocB     == [t |-> "obj",  n |-> 2]
Values   == {Null, Zero, EmptyStr, False, EmptyArr, DocA, DocB}

\* ToBoolean of JavaScript, as `if (publishedResult)` applies it: null, 0,
\* false and "" are falsy; every array and object is truthy, empty or not.
TruthyNotNull(v) == v.t # "null"

Truthy(v) ==
  CASE v.t = "null" -> FALSE
    [] v.t = "num"  -> v.n # 0
    [] v.t = "str"  -> v.n # 0
    [] v.t = "bool" -> v.n # 0
    [] OTHER        -> TRUE

\* What a call settles with: a value, or the Error thrown.
NoRet      == [st |-> "none", v |-> Null]
Ok(v)      == [st |-> "ok", v |-> v]
HttpError  == [st |-> "http", v |-> Null]
TransportError == [st |-> "transport", v |-> Null]
Outcomes   == {Ok(v) : v \in Values} \cup {HttpError, TransportError}

FetchOpts == [useCdn : BOOLEAN, useAuth : BOOLEAN]
NoOpts    == [useCdn |-> FALSE, useAuth |-> FALSE]
CdnOpts   == [useCdn |-> TRUE,  useAuth |-> FALSE]
AuthOpts  == [useCdn |-> FALSE, useAuth |-> TRUE]

\* The rate gate reads neither the options nor the response: the calls that
\* exercise it draw them from two cases each.
GateOpts     == {NoOpts, CdnOpts}
GateOutcomes == {Ok(DocA), HttpError}

\* ------------------------------------------------------------ cache.ts
maxSize == 100         \* MemoryCache.maxSize
MemCap == 2            \* MemoryCache.maxSize in the MemoryCache machine
MaxMemOps == 5         \* MemoryCache operations in the MemoryCache machine
MsPerSecond == 1000    \* validUntil: Date.now() + (ttl * 1000)
CacheTickMs == MsPerSecond

\* ---- generateCacheKey
\* A params object is the sequence of its own properties in insertion order,
\* [k, v] with distinct names. A name is its index in ParamNames, which lists
\* the names in the order Array.prototype.sort() puts them.
ParamNames == <<"a", "b">>
NaN == [t |-> "nan", n |-> 0]
One == [t |-> "num", n |-> 1]
ParamValues == {One, Null, NaN}

\* JSON.stringify(value): NaN is written as null.
JSONStringify(v) ==
  CASE v = Null -> "null"
    [] v = NaN  -> "null"
    [] v = One  -> "1"

\* Object.keys(params)
ObjectKeys(params) == [i \in 1..Len(params) |-> params[i].k]

\* The value of property k (params[key]).
RECURSIVE ParamOf(_, _)
ParamOf(params, k) ==
  IF params = <<>> THEN Null
  ELSE IF Head(params).k = k THEN Head(params).v
  ELSE ParamOf(Tail(params), k)

\* .sort(): the names in ascending order.
RECURSIVE Insert(_, _)
Insert(k, sorted) ==
  IF sorted = <<>> THEN <<k>>
  ELSE IF k <= Head(sorted) THEN <<k>> \o sorted
  ELSE <<Head(sorted)>> \o Insert(k, Tail(sorted))

SortKeepsOrder(ks) == ks

RECURSIVE Sort(_)
Sort(ks) == IF ks = <<>> THEN <<>> ELSE Insert(Head(ks), Sort(Tail(ks)))

\* .join('&')
RECURSIVE Join(_)
Join(parts) ==
  IF parts = <<>> THEN ""
  ELSE IF Len(parts) = 1 THEN parts[1]
  ELSE parts[1] \o "&" \o Join(Tail(parts))

\* `sanity:${dataset}:${query}`, then `:` and the sorted `key=value` pairs
\* when params has properties.
generateCacheKey(dataset, query, params) ==
  LET baseKey == "sanity:" \o dataset \o ":" \o query
      sorted  == Sort(ObjectKeys(params))
      pairs   == [i \in 1..Len(sorted) |->
                    ParamNames[sorted[i]] \o "="
                      \o JSONStringify(ParamOf(params, sorted[i]))]
  IN IF Len(params) = 0 THEN baseKey ELSE baseKey \o ":" \o Join(pairs)

\* cachedSanityFetch: `prefix + generateCacheKey(dataset, query, params)`;
\* the cached calls of this model pass no params.
CacheKeyOf(prefix, dataset, query) ==
  prefix \o generateCacheKey(dataset, query, <<>>)

Queries   == {"q1"}
CacheKeys == {CacheKeyOf("", "production", q) : q \in Queries}
\* The requests warmSanityCache is given, in the order of its list.
WarmQueryNames == <<"q1", "q2", "q3">>
WarmKeyOf(i) == CacheKeyOf("", "production", WarmQueryNames[i])
WarmKeys == {WarmKeyOf(i) : i \in 1..NumCalls}
\* Keys that other callers have written to Redis: another dataset, and a
\* cache.prefix of "v2:".
ForeignKeys == {CacheKeyOf("", "staging", "q1"),
                CacheKeyOf("v2:", "production", "q1")}
\* The keys a store is asked about.
StoreKeys == CacheKeys \cup WarmKeys \cup ForeignKeys
Ttls      == {1}
CacheValues   == {Null, DocA, DocB}
CacheOutcomes == {Ok(v) : v \in CacheValues} \cup {HttpError, TransportError}

\* CacheEntry<T>, and the null a store returns for a key it does not hold.
NoEntry == [value |-> Null, timestamp |-> None, validUntil |-> None]
CacheEntry(value, t, ttl) ==
  [value |-> value, timestamp |-> t, validUntil |-> t + ttl * MsPerSecond]
\* The literal `{ value, timestamp: Date.now(), validUntil: Date.now() +
\* (ttl * 1000) }` evaluates in two steps, one for each Date.now().
TimestampRead(value, t) ==
  [value |-> value, timestamp |-> t, validUntil |-> None]
ValidUntilRead(e, t, ttl) == [e EXCEPT !.validUntil = t + ttl * MsPerSecond]

\* fetch: the options cachedSanityFetch hands on to edgeSanityFetch (it passes
\* its whole options object); callers here leave them at their defaults.
CacheOpts == [cacheKey : CacheKeys, ttl : Ttls, force : BOOLEAN,
              useRedis : BOOLEAN, useNextCache : BOOLEAN, fetch : {NoOpts}]
NoCacheOpts == [cacheKey |-> "", ttl |-> 0, force |-> FALSE,
                useRedis |-> FALSE, useNextCache |-> FALSE, fetch |-> NoOpts]

\* redis: the clients exist (isRedisConfigured and the constructor did not
\* throw). next: require('next/cache') works and window is undefined.
Envs == [redis : BOOLEAN, next : BOOLEAN]

\* Redis is shared: when this instance starts, it holds nothing for a key or
\* the entry another instance has just written, with the document as that
\* instance fetched it.
DocOld == [t |-> "obj", n |-> 3]
\* What an authenticated request (perspective=previewDrafts) is answered with:
\* the unpublished edit of the document.
DocDraft == [t |-> "obj", n |-> 4]
RemoteEntries == {NoEntry, CacheEntry(DocOld, Epoch, 1)}
EmptyStore == [k \in StoreKeys |-> NoEntry]

NoLast == [cacheKey |-> "", value |-> Null, until |-> None]

\* warmSanityCache / batchSanityFetch: no call in progress.
NoFan == [name |-> "none", pc |-> "idle", n |-> 0, started |-> 0,
          opts |-> [useCdn |-> FALSE, useAuth |-> FALSE]]
\* A property of `results` that has not been assigned.
Unset == [t |-> "unset", n |-> 0]
BatchKeyNames == <<"a", "b", "c">>
BatchKeys == {BatchKeyNames[i] : i \in 1..Len(BatchKeyNames)}

\* clearSanityCache: no call in progress.
NoClearOpts == [dataset |-> "", pattern |-> "", clearMemory |-> FALSE,
                clearRedis |-> FALSE]
NoClear == [pc |-> "idle", opts |-> NoClearOpts, keys |-> {}, at |-> None,
            calls |-> 0, redisError |-> FALSE]

\* The requests whose keys are compared, two at a time.
KeyDatasets == {"production", "staging"}
KeyQueries  == {"q", "q:a=1"}
KeyParams ==
  {p \in UNION {[1..n -> [k : 1..Len(ParamNames), v : ParamValues]] :
                  n \in 0..Len(ParamNames)} :
     \A i, j \in 1..Len(p) : i # j => p[i].k # p[j].k}
KeyArgs   == [dataset : KeyDatasets, query : KeyQueries, params : KeyParams]
NoKeyArgs == [dataset |-> "", query |-> "", params |-> <<>>]

\* ---- MemoryCache
\* The keys of the MemoryCache machine, one more than its capacity there.
KeyNames == <<"k1", "k2", "k3", "k4">>
LruKeys == {KeyNames[i] : i \in 1..(MemCap + 1)}
NoOp == [op |-> "none", key |-> "", evicted |-> {}, returned |-> Null]

MemIndex(cache, key) ==
  IF \E i \in 1..Len(cache) : cache[i].key = key
    THEN CHOOSE i \in 1..Len(cache) : cache[i].key = key
    ELSE 0

MemRemove(cache, i) ==
  [j \in 1..(Len(cache) - 1) |-> IF j < i THEN cache[j] ELSE cache[j + 1]]

\* get without the move of the entry to the end.
MemGetNoMove(cache, key, t) ==
  LET i == MemIndex(cache, key) IN
    IF i = 0 THEN [cache |-> cache, value |-> Null]
    ELSE IF t > cache[i].validUntil
      THEN [cache |-> MemRemove(cache, i), value |-> Null]
      ELSE [cache |-> cache, value |-> cache[i].value]

\* get(key): the cache after the call and the value returned, null when the
\* key is unknown or its entry has expired.
MemGet(cache, key, t) ==
  LET i == MemIndex(cache, key) IN
    IF i = 0 THEN [cache |-> cache, value |-> Null]
    ELSE IF t > cache[i].validUntil
      THEN [cache |-> MemRemove(cache, i), value |-> Null]
      ELSE [cache |-> Append(MemRemove(cache, i), cache[i]),
            value |-> cache[i].value]

\* set without the eviction and without Map's one-entry-per-key.
MemSetNoEvict(cache, cap, key, value, ttl, t) ==
  Append(cache, [key |-> key] @@ CacheEntry(value, t, ttl))

\* set(key, ...) on a cache of capacity cap, e being the entry it builds.
\* Map.set keeps the place of a key that is already present.
MemPut(cache, cap, key, e) ==
  LET kept == IF Len(cache) >= cap /\ MemIndex(cache, key) = 0 /\ cache # <<>>
                THEN Tail(cache) ELSE cache
      i == MemIndex(kept, key)
  IN IF i = 0 THEN Append(kept, [key |-> key] @@ e)
              ELSE [kept EXCEPT ![i] = [key |-> key] @@ e]

\* set(key, value, ttl) when both Date.now() calls of the entry return t.
MemSet(cache, cap, key, value, ttl, t) ==
  MemPut(cache, cap, key, CacheEntry(value, t, ttl))

\* `memoryResult !== null`
MemoryHit(v) == v # Null

\* `redisEntry && Date.now() <= redisEntry.validUntil`
RedisHit(e, t) == e # NoEntry /\ t <= e.validUntil

\* The data cache of unstable_cache serves an entry for `revalidate` seconds.
NextHit(e, t) == e # NoEntry /\ t <= e.validUntil

\* `await edgeSanityFetch(options)` returns instead of throwing.
FetchSucceeded(out) == out.st = "ok"

\* The two try/catch blocks around the Redis calls swallow what they throw.
RedisErrorPropagates == FALSE

RedisErrorSwallowed == TRUE

\* --------------------------------------------- edgeSanityFetch: the request
\* process.env as the fetcher reads it: getProjectId() throws when
\* NEXT_PUBLIC_SANITY_PROJECT_ID is unset; getViewerToken() returns the first
\* of three variables that is set, or undefined.
Configs    == [projectId : BOOLEAN, token : BOOLEAN]
Configured == [projectId |-> TRUE, token |-> TRUE]

CdnHost     == "apicdn.sanity.io"
PrimaryHost == "api.sanity.io"
Absent      == "absent"

\* baseUrl: `useCdn ? apicdn : api`.
BaseUrl(o) == IF o.useCdn THEN CdnHost ELSE PrimaryHost

\* `if (useAuth) url.searchParams.set('perspective', 'previewDrafts')`
PerspectiveNeedsToken(o, token) ==
  IF o.useAuth /\ token THEN "previewDrafts" ELSE Absent

Perspective(o, token) == IF o.useAuth THEN "previewDrafts" ELSE Absent

\* `if (useAuth) { if (envToken) headers['Authorization'] = ... }`
Authorization(o, token) == IF o.useAuth /\ token THEN "Bearer" ELSE Absent

\* What edgeSanityFetch hands to fetch(): the host of the URL, its
\* perspective parameter and the Authorization header.
BuildRequest(o, token) ==
  [host          |-> BaseUrl(o),
   perspective   |-> Perspective(o, token),
   authorization |-> Authorization(o, token)]

\* -------------------------------------------- edgeSanityFetch: the response
\* A Response: ok is true for the 2xx statuses; result is data.result.
NoResponse == [ok |-> FALSE, status |-> "", statusText |-> "", result |-> Null]
Success(v) == [ok |-> TRUE, status |-> "200", statusText |-> "OK", result |-> v]
NotFound   == [ok |-> FALSE, status |-> "404", statusText |-> "Not Found",
               result |-> Null]
ServerError == [ok |-> FALSE, status |-> "500",
                statusText |-> "Internal Server Error", result |-> Null]
EntryValues == {Null, EmptyArr, DocA}
Responses  == {Success(v) : v \in EntryValues} \cup {NotFound, ServerError}

\* The messages of the Errors a call can fail with.
NoMessage == ""
NetworkCause == "fetch failed"
ProjectIdMessage ==
  "NEXT_PUBLIC_SANITY_PROJECT_ID environment variable is required"
ConfigError == [st |-> "config", v |-> Null]

\* `Sanity fetch failed: ${response.status} ${response.statusText}`
FetchFailedMessageBare(r) == "Sanity fetch failed"

FetchFailedMessage(r) ==
  "Sanity fetch failed: " \o r.status \o " " \o r.statusText

\* A rejection of fetch() is not caught: the call rejects with the same Error.
RejectionMessageLost(cause) == "Sanity fetch failed"

RejectionMessage(cause) == cause

\* ------------------------------------------------------- EdgeRateLimiter
\* throttle(): the delay it sleeps for, 0 when it does not sleep.
ThrottleDelayNoWait(t, last) == 0

ThrottleDelay(t, last) ==
  IF t - last < minInterval THEN minInterval - (t - last) ELSE 0

\* throttle() returns: lastRequest = Date.now(); edgeSanityFetch then builds
\* the request o and calls fetch(). prior: the requests c issued before.
ThrottleDone(c, o, prior) ==
  /\ lastRequest' = now
  /\ lastComp' = now
  /\ compAt' = [compAt EXCEPT ![c] = now]
  /\ issued' = [issued EXCEPT ![c] = Append(prior, o)]
  /\ wakeAt' = [wakeAt EXCEPT ![c] = 0]
  /\ pc' = [pc EXCEPT ![c] = "net"]

\* edgeSanityFetch(o) is called by c: throttle() runs up to its await, or
\* to its end when it does not sleep.
BeginFetch(c, o, prior) ==
  /\ fopts' = [fopts EXCEPT ![c] = o]
  /\ floor' = [floor EXCEPT ![c] = lastComp]
  /\ LET d == ThrottleDelay(now, lastRequest) IN
       IF d > 0
         THEN /\ pc' = [pc EXCEPT ![c] = "throttle"]
              /\ wakeAt' = [wakeAt EXCEPT ![c] = now + d]
              /\ issued' = [issued EXCEPT ![c] = prior]
              /\ compAt' = [compAt EXCEPT ![c] = None]
              /\ slept' = [slept EXCEPT ![c] = TRUE]
              /\ UNCHANGED <<lastRequest, lastComp>>
         ELSE /\ slept' = [slept EXCEPT ![c] = FALSE]
              /\ ThrottleDone(c, o, prior)

Settled(c) == pc[c] \in {"idle", "done", "failed"}

\* The setTimeout of throttle() fires (never early, possibly late).
ThrottleWake(c) ==
  /\ pc[c] = "throttle"
  /\ now >= wakeAt[c]
  /\ ThrottleDone(c, fopts[c], issued[c])
  /\ lastDone' = NoLast
  /\ UNCHANGED <<now, kind, ret, fopts, floor, slept, fbVars, storeVars,
                 callVars>>
  /\ UNCHANGED <<entryVars, keyVars, auxVars>>

\* ------------------------------------------------------ edgeSanityFetch
\* A caller invokes edgeSanityFetch directly.
EdgeStart(c) ==
  /\ Settled(c)
  /\ \E o \in GateOpts :
       /\ kind' = [kind EXCEPT ![c] = "edge"]
       /\ ret' = [ret EXCEPT ![c] = NoRet]
       /\ BeginFetch(c, o, <<>>)
  /\ UNCHANGED <<now, fbVars, cacheVars>>
  /\ UNCHANGED <<entryVars, keyVars, auxVars>>

\* The response of a direct edgeSanityFetch arrives.
EdgeReply(c) ==
  /\ pc[c] = "net"
  /\ kind[c] = "edge"
  /\ \E out \in GateOutcomes :
       /\ ret' = [ret EXCEPT ![c] = out]
       /\ pc' = [pc EXCEPT ![c] = IF out.st = "ok" THEN "done" ELSE "failed"]
  /\ UNCHANGED <<now, kind, gateVars, fbVars, cacheVars>>
  /\ UNCHANGED <<entryVars, keyVars, auxVars>>

GateTick ==
  /\ now + GateTickMs <= Epoch + GateMaxTicks * GateTickMs
  /\ now' = now + GateTickMs
  /\ UNCHANGED <<pc, kind, ret, gateVars, fbVars, cacheVars>>
  /\ UNCHANGED <<entryVars, keyVars, auxVars>>

InitCalls ==
  /\ now = Epoch
  /\ lastRequest = 0
  /\ pc = [c \in Calls |-> "idle"]
  /\ kind = [c \in Calls |-> "none"]
  /\ wakeAt = [c \in Calls |-> 0]
  /\ fopts = [c \in Calls |-> NoOpts]
  /\ issued = [c \in Calls |-> <<>>]
  /\ ret = [c \in Calls |-> NoRet]
  /\ draftLookup = [c \in Calls |-> "disabled"]
  /\ replies = [c \in Calls |-> <<>>]
  /\ floor = [c \in Calls |-> None]
  /\ compAt = [c \in Calls |-> None]
  /\ slept = [c \in Calls |-> FALSE]
  /\ lastComp = None
  /\ memory = <<>>
  /\ nextStore = EmptyStore
  /\ copts = [c \in Calls |-> NoCacheOpts]
  /\ memoryResult = [c \in Calls |-> Null]
  /\ redisEntry = [c \in Calls |-> NoEntry]
  /\ result = [c \in Calls |-> NoRet]
  /\ entry = [c \in Calls |-> NoEntry]
  /\ inTry = [c \in Calls |-> FALSE]
  /\ did = [c \in Calls |-> {}]
  /\ lastDone = NoLast
  /\ expect = [c \in Calls |-> NoRet]
  /\ forceAuth = [c \in Calls |-> "undefined"]
  /\ sent = [c \in Calls |-> <<>>]
  /\ response = [c \in Calls |-> NoResponse]
  /\ consumed = [c \in Calls |-> FALSE]
  /\ message = [c \in Calls |-> NoMessage]
  /\ keys = <<"", "">>
  /\ servedAt = [c \in Calls |-> None]
  /\ accessed = [k \in LruKeys |-> 0]
  /\ opCount = 0
  /\ lastOp = NoOp
  /\ fan = NoFan
  /\ results = [k \in BatchKeys |-> Unset]
  /\ clear = NoClear
  /\ origin = DocA
  /\ inFlight = [c \in Calls |-> NoRet]

\* The rate gate, fallback and cache machines run with the project id and a
\* viewer token configured.
Init ==
  /\ InitCalls
  /\ env \in Envs
  /\ \E e \in (IF env.redis THEN RemoteEntries ELSE {NoEntry}) :
       redisStore = [k \in StoreKeys |-> IF k \in CacheKeys THEN e
                                                             ELSE NoEntry]
  /\ config = Configured
  /\ keyArgs = <<NoKeyArgs, NoKeyArgs>>

GateNext ==
  \/ \E c \in Calls : EdgeStart(c)
  \/ \E c \in Calls : ThrottleWake(c)
  \/ \E c \in Calls : EdgeReply(c)
  \/ GateTick

SpecGate == Init /\ [][GateNext]_vars

\* ---------------------------------------------- sanityFetchWithFallback
\* isDraftModeEnabled(): draft.isEnabled, and false when next/headers cannot
\* be imported or draftMode() throws.
DraftLookups == {"enabled", "disabled", "unavailable"}
isDraftModeEnabledFailClosed(lookup) == lookup # "disabled"

isDraftModeEnabled(lookup) == lookup = "enabled"

\* The first request of sanityFetchWithFallback.
FirstRequestAlwaysCdn(isNextDraftMode) == CdnOpts

FirstRequest(isNextDraftMode) ==
  IF isNextDraftMode THEN AuthOpts ELSE CdnOpts

\* The draft request would follow a failed CDN request too.
TriesDraftsOnError(out) == out.st # "ok" \/ ~Truthy(out.v)

\* How the CDN request ended decides whether the draft request follows: a
\* rejection leaves sanityFetchWithFallback at the await (there is no catch);
\* a result is tested with `if (publishedResult)`.
TriesDrafts(out) == out.st = "ok" /\ ~Truthy(out.v)

\* One caller runs sanityFetchWithFallback at a time here: the calls share
\* nothing but the rate gate.
FbCalls == {1}

FallbackStart(c) ==
  /\ Settled(c)
  /\ \E lookup \in DraftLookups :
       /\ draftLookup' = [draftLookup EXCEPT ![c] = lookup]
       /\ BeginFetch(c, FirstRequest(isDraftModeEnabled(lookup)), <<>>)
  /\ kind' = [kind EXCEPT ![c] = "fallback"]
  /\ ret' = [ret EXCEPT ![c] = NoRet]
  /\ replies' = [replies EXCEPT ![c] = <<>>]
  /\ UNCHANGED <<now, cacheVars>>
  /\ UNCHANGED <<entryVars, keyVars, auxVars>>

\* A response arrives: of the only request in draft mode, else of the CDN
\* request (publishedResult) or of the draft request that followed it.
FallbackReply(c) ==
  /\ pc[c] = "net"
  /\ kind[c] = "fallback"
  /\ \E out \in Outcomes :
       /\ replies' = [replies EXCEPT ![c] = Append(@, out)]
       /\ IF /\ ~isDraftModeEnabled(draftLookup[c])
             /\ Len(issued[c]) = 1
             /\ TriesDrafts(out)
            THEN /\ BeginFetch(c, AuthOpts, issued[c])
                 /\ UNCHANGED ret
            ELSE /\ ret' = [ret EXCEPT ![c] = out]
                 /\ pc' = [pc EXCEPT ![c] =
                              IF out.st = "ok" THEN "done" ELSE "failed"]
                 /\ UNCHANGED gateVars
  /\ UNCHANGED <<now, kind, draftLookup, cacheVars>>
  /\ UNCHANGED <<entryVars, keyVars, auxVars>>

FbNext ==
  \/ \E c \in FbCalls : FallbackStart(c)
  \/ \E c \in FbCalls : ThrottleWake(c)
  \/ \E c \in FbCalls : FallbackReply(c)
  \/ GateTick

SpecFallback == Init /\ [][FbNext]_vars

\* ------------------------------------------- the entry points of core.ts
\* edgeSanityFetch called directly, sanityFetch, sanityFetchWithFallback,
\* sanityFetchStatic and sanityFetchAuthenticated, with the request as built
\* and the response as read, under every configuration of process.env.
EntryKinds == {"edge", "auto", "fallback", "static", "authenticated"}
ForceAuths == {"undefined", "true", "false"}
EntryCalls == {1}

\* sanityFetch: `options?.forceAuth ?? await isDraftModeEnabled()`
AutoUseAuth(force, lookup) ==
  IF force = "undefined" THEN isDraftModeEnabled(lookup) ELSE force = "true"

\* sanityFetch: `useCdn: !useAuth, useAuth`
AutoOptsAlwaysCdn(useAuth) == [useCdn |-> TRUE, useAuth |-> useAuth]

AutoOpts(useAuth) == [useCdn |-> ~useAuth, useAuth |-> useAuth]

\* The options of the first edgeSanityFetch of entry point k: o are the
\* caller's options (edge), force its forceAuth (auto), lookup what the
\* draft-mode lookup does in this environment.
EntryOptsFollowDraftMode(k, o, force, lookup) ==
  IF k = "edge" THEN o ELSE FirstRequest(isDraftModeEnabled(lookup))

EntryOpts(k, o, force, lookup) ==
  CASE k = "edge"          -> o
    [] k = "auto"          -> AutoOpts(AutoUseAuth(force, lookup))
    [] k = "fallback"      -> FirstRequest(isDraftModeEnabled(lookup))
    [] k = "static"        -> CdnOpts
    [] k = "authenticated" -> AuthOpts

\* throttle() returns: lastRequest = Date.now(); then getProjectId() throws,
\* or the request is built and passed to fetch().
EntryThrottleDone(c, o, priorIssued, priorSent) ==
  /\ lastRequest' = now
  /\ lastComp' = now
  /\ compAt' = [compAt EXCEPT ![c] = now]
  /\ wakeAt' = [wakeAt EXCEPT ![c] = 0]
  /\ IF config.projectId
       THEN /\ issued' = [issued EXCEPT ![c] = Append(priorIssued, o)]
            /\ sent' = [sent EXCEPT ![c] =
                           Append(priorSent, BuildRequest(o, config.token))]
            /\ pc' = [pc EXCEPT ![c] = "net"]
            /\ ret' = [ret EXCEPT ![c] = NoRet]
            /\ message' = [message EXCEPT ![c] = NoMessage]
       ELSE /\ issued' = [issued EXCEPT ![c] = priorIssued]
            /\ sent' = [sent EXCEPT ![c] = priorSent]
            /\ pc' = [pc EXCEPT ![c] = "failed"]
            /\ ret' = [ret EXCEPT ![c] = ConfigError]
            /\ message' = [message EXCEPT ![c] = ProjectIdMessage]

\* edgeSanityFetch(o) is called by c: throttle() runs up to its await, or to
\* its end when it does not sleep.
EntryBegin(c, o, priorIssued, priorSent) ==
  /\ fopts' = [fopts EXCEPT ![c] = o]
  /\ floor' = [floor EXCEPT ![c] = lastComp]
  /\ LET d == ThrottleDelay(now, lastRequest) IN
       IF d > 0
         THEN /\ pc' = [pc EXCEPT ![c] = "throttle"]
              /\ wakeAt' = [wakeAt EXCEPT ![c] = now + d]
              /\ issued' = [issued EXCEPT ![c] = priorIssued]
              /\ sent' = [sent EXCEPT ![c] = priorSent]
              /\ compAt' = [compAt EXCEPT ![c] = None]
              /\ slept' = [slept EXCEPT ![c] = TRUE]
              /\ ret' = [ret EXCEPT ![c] = NoRet]
              /\ message' = [message EXCEPT ![c] = NoMessage]
              /\ UNCHANGED <<lastRequest, lastComp>>
         ELSE /\ slept' = [slept EXCEPT ![c] = FALSE]
              /\ EntryThrottleDone(c, o, priorIssued, priorSent)

\* A caller invokes one of the entry points.
EntryStart(c) ==
  /\ Settled(c)
  /\ \E k \in EntryKinds, lookup \in DraftLookups :
       \E o \in IF k = "edge" THEN FetchOpts ELSE {NoOpts},
          force \in IF k = "auto" THEN ForceAuths ELSE {"undefined"} :
         /\ kind' = [kind EXCEPT ![c] = k]
         /\ draftLookup' = [draftLookup EXCEPT ![c] = lookup]
         /\ forceAuth' = [forceAuth EXCEPT ![c] = force]
         /\ EntryBegin(c, EntryOpts(k, o, force, lookup), <<>>, <<>>)
  /\ response' = [response EXCEPT ![c] = NoResponse]
  /\ consumed' = [consumed EXCEPT ![c] = FALSE]
  /\ UNCHANGED <<now, replies, cacheVars, config, keyVars, auxVars>>

\* The setTimeout of throttle() fires.
EntryWake(c) ==
  /\ pc[c] = "throttle"
  /\ now >= wakeAt[c]
  /\ EntryThrottleDone(c, fopts[c], issued[c], sent[c])
  /\ UNCHANGED <<now, kind, fopts, floor, slept, fbVars, cacheVars, config,
                 forceAuth, response, consumed, keyVars, auxVars>>

\* fetch() settles: it rejects (r = NoResponse), or resolves with a Response
\* whose body is then read, by response.json() or by response.text().
EntryReply(c) ==
  /\ pc[c] = "net"
  /\ \E r \in Responses \cup {NoResponse} :
       IF r = NoResponse
         THEN /\ pc' = [pc EXCEPT ![c] = "failed"]
              /\ ret' = [ret EXCEPT ![c] = TransportError]
              /\ message' = [message EXCEPT ![c] =
                                RejectionMessage(NetworkCause)]
              /\ UNCHANGED <<response, consumed>>
         ELSE /\ pc' = [pc EXCEPT ![c] = IF r.ok THEN "json" ELSE "text"]
              /\ response' = [response EXCEPT ![c] = r]
              /\ consumed' = [consumed EXCEPT ![c] = FALSE]
              /\ UNCHANGED <<ret, message>>
  /\ UNCHANGED <<now, kind, gateVars, fbVars, cacheVars, config, forceAuth,
                 sent, keyVars, auxVars>>

\* The body has been read. After response.text() the Error is thrown; after
\* response.json() data.result is returned, and sanityFetchWithFallback goes
\* on to its draft request when the published result is falsy. The read is
\* taken to complete.
EntryBody(c) ==
  /\ pc[c] \in {"text", "json"}
  /\ consumed' = [consumed EXCEPT ![c] = TRUE]
  /\ IF pc[c] = "text"
       THEN /\ pc' = [pc EXCEPT ![c] = "failed"]
            /\ ret' = [ret EXCEPT ![c] = HttpError]
            /\ message' = [message EXCEPT ![c] =
                              FetchFailedMessage(response[c])]
            /\ UNCHANGED <<gateVars, sent>>
       ELSE IF /\ kind[c] = "fallback"
               /\ ~isDraftModeEnabled(draftLookup[c])
               /\ Len(sent[c]) = 1
               /\ ~Truthy(response[c].result)
              THEN EntryBegin(c, AuthOpts, issued[c], sent[c])
              ELSE /\ pc' = [pc EXCEPT ![c] = "done"]
                   /\ ret' = [ret EXCEPT ![c] = Ok(response[c].result)]
                   /\ UNCHANGED <<gateVars, sent, message>>
  /\ UNCHANGED <<now, kind, fbVars, cacheVars, config, forceAuth, response,
                 keyVars, auxVars>>

NoEnv == [redis |-> FALSE, next |-> FALSE]

EntryInit ==
  /\ InitCalls
  /\ env = NoEnv
  /\ redisStore = EmptyStore
  /\ config \in Configs
  /\ keyArgs = <<NoKeyArgs, NoKeyArgs>>

EntryNext ==
  \/ \E c \in EntryCalls : EntryStart(c)
  \/ \E c \in EntryCalls : EntryWake(c)
  \/ \E c \in EntryCalls : EntryReply(c)
  \/ \E c \in EntryCalls : EntryBody(c)
  \/ GateTick

SpecEntry == EntryInit /\ [][EntryNext]_vars

\* The same machine with the scheduling the code can count on: a timer that
\* is due fires, a body that has arrived is read, the clock advances. fetch()
\* is called with the headers only (no signal, no timeout), so nothing makes
\* the step of EntryReply happen when the endpoint stays silent.
EntryFairness ==
  /\ WF_vars(\E c \in EntryCalls : EntryWake(c))
  /\ WF_vars(\E c \in EntryCalls : EntryBody(c))
  /\ WF_vars(GateTick)

SpecEntryLive == EntryInit /\ [][EntryNext]_vars /\ EntryFairness

\* ------------------------------------------------------ entry point claims
IsEntry(c, k) == kind[c] = k /\ pc[c] # "idle"
CdnRequest == [host |-> CdnHost, perspective |-> Absent,
               authorization |-> Absent]
\* The request of authenticated mode: the Bearer header needs a token.
DraftRequest ==
  [host |-> PrimaryHost, perspective |-> "previewDrafts",
   authorization |-> IF config.token THEN "Bearer" ELSE Absent]
\* c got past getProjectId().
Requested(c) ==
  pc[c] \in {"net", "text", "json", "done"}
    \/ (pc[c] = "failed" /\ ret[c] # ConfigError)

\* C11: a sanityFetch call issues exactly one request: the authenticated
\* primary-host request with perspective=previewDrafts when forceAuth is true,
\* or is not given and draft mode is on; the plain CDN request otherwise; and
\* never a CDN request that carries a perspective or an Authorization header.
C11_AutoOneRequest ==
  \A c \in EntryCalls :
    IsEntry(c, "auto") =>
      LET wantAuth == \/ forceAuth[c] = "true"
                      \/ forceAuth[c] = "undefined" /\ draftLookup[c] = "enabled"
      IN /\ Len(sent[c]) <= 1
         /\ Requested(c) => Len(sent[c]) = 1
         /\ \A i \in 1..Len(sent[c]) :
              /\ sent[c][i] = IF wantAuth THEN DraftRequest ELSE CdnRequest
              /\ sent[c][i].host = CdnHost => sent[c][i] = CdnRequest

\* A sanityFetch with forceAuth = true outside draft mode that returned after
\* its one authenticated request.
C11_Witness ==
  \E c \in EntryCalls :
    /\ IsEntry(c, "auto") /\ pc[c] = "done"
    /\ forceAuth[c] = "true" /\ draftLookup[c] = "disabled"
    /\ config.token
    /\ sent[c] = <<[host |-> PrimaryHost, perspective |-> "previewDrafts",
                    authorization |-> "Bearer"]>>

\* C12: whatever the draft mode, sanityFetchStatic issues the plain CDN
\* request and sanityFetchAuthenticated the authenticated primary-host request
\* with perspective=previewDrafts.
C12_StaticAndAuthenticatedFixed ==
  \A c \in EntryCalls :
    /\ IsEntry(c, "static") =>
         /\ Len(sent[c]) <= 1
         /\ Requested(c) => sent[c] = <<CdnRequest>>
    /\ IsEntry(c, "authenticated") =>
         /\ Len(sent[c]) <= 1
         /\ Requested(c) => sent[c] = <<DraftRequest>>

\* A sanityFetchStatic made in draft mode that returned after a CDN request.
C12_Witness ==
  \E c \in EntryCalls :
    /\ IsEntry(c, "static") /\ pc[c] = "done"
    /\ draftLookup[c] = "enabled"
    /\ sent[c] = <<CdnRequest>>

\* C13: when the draft-mode lookup is unavailable, sanityFetch (forceAuth not
\* given) and sanityFetchWithFallback start with the plain CDN request;
\* sanityFetch issues nothing else; and a call fails only with the errors of
\* edgeSanityFetch (configuration, transport, HTTP status).
C13_LookupFailureIsDraftOff ==
  \A c \in EntryCalls :
    (/\ IsEntry(c, "auto") \/ IsEntry(c, "fallback")
     /\ draftLookup[c] = "unavailable"
     /\ forceAuth[c] = "undefined") =>
       /\ Requested(c) => (sent[c] # <<>> /\ sent[c][1] = CdnRequest)
       /\ Len(sent[c]) <= IF kind[c] = "fallback" THEN 2 ELSE 1
       /\ pc[c] = "failed" =>
            /\ ret[c] \in {ConfigError, TransportError, HttpError}
            /\ message[c] \in {ProjectIdMessage, NetworkCause}
                               \cup {"Sanity fetch failed: 404 Not Found",
                                     "Sanity fetch failed: 500 Internal Server Error"}

\* A sanityFetch whose draft-mode lookup was unavailable and that returned
\* after its CDN request.
C13_Witness ==
  \E c \in EntryCalls :
    /\ IsEntry(c, "auto") /\ pc[c] = "done"
    /\ draftLookup[c] = "unavailable" /\ forceAuth[c] = "undefined"
    /\ sent[c] = <<CdnRequest>>

\* C14: every request goes to the primary host when useAuth is true, and
\* otherwise to the CDN host exactly when useCdn is true.
C14_AuthImpliesPrimaryHost ==
  \A c \in EntryCalls :
    \A i \in 1..Len(sent[c]) :
      sent[c][i].host =
        IF issued[c][i].useAuth THEN PrimaryHost
        ELSE IF issued[c][i].useCdn THEN CdnHost ELSE PrimaryHost

\* C15: a request carries perspective=previewDrafts exactly when useAuth is
\* true, and the Bearer header exactly when useAuth is true and a token is
\* configured; with useAuth and no token the request is still issued.
C15_PerspectiveAndBearer ==
  \A c \in EntryCalls :
    /\ Len(sent[c]) = Len(issued[c])
    /\ \A i \in 1..Len(sent[c]) :
         /\ sent[c][i].perspective = "previewDrafts" <=> issued[c][i].useAuth
         /\ sent[c][i].perspective \in {"previewDrafts", Absent}
         /\ sent[c][i].authorization = "Bearer" <=>
              (issued[c][i].useAuth /\ config.token)
         /\ sent[c][i].authorization \in {"Bearer", Absent}
    /\ (Requested(c) /\ config.projectId) => sent[c] # <<>>

\* An edgeSanityFetch with useAuth and no token configured that returned: its
\* request had the perspective and no Authorization header.
C15_Witness ==
  \E c \in EntryCalls :
    /\ IsEntry(c, "edge") /\ pc[c] = "done"
    /\ ~config.token
    /\ issued[c] = <<AuthOpts>>
    /\ sent[c] = <<[host |-> PrimaryHost, perspective |-> "previewDrafts",
                    authorization |-> Absent]>>

\* C16: a non-success response makes the call fail with the Error whose
\* message carries the status and the status text, and with no result; the
\* Error is not thrown before the body has been read.
C16_StatusErrorAfterBodyRead ==
  \A c \in EntryCalls :
    /\ pc[c] = "text" => (ret[c] = NoRet /\ message[c] = NoMessage)
    /\ (response[c] # NoResponse /\ ~response[c].ok
          /\ pc[c] \notin {"net", "text"}) =>
         /\ pc[c] = "failed"
         /\ consumed[c]
         /\ ret[c] = HttpError
         /\ message[c] = "Sanity fetch failed: " \o response[c].status
                             \o " " \o response[c].statusText

\* A call that failed on a 404 after reading the body.
C16_Witness ==
  \E c \in EntryCalls :
    /\ pc[c] = "failed"
    /\ response[c] = NotFound
    /\ consumed[c]
    /\ message[c] = "Sanity fetch failed: 404 Not Found"

\* C17: when fetch() rejects, the call fails with that same error and issues
\* nothing more: one request per edgeSanityFetch call, so one per call of an
\* entry point, and for sanityFetchWithFallback at most a CDN request
\* followed by a different, authenticated one.
C17_RejectionNotRetried ==
  \A c \in EntryCalls :
    /\ ret[c] = TransportError =>
         /\ pc[c] = "failed"
         /\ message[c] = NetworkCause
         /\ kind[c] # "fallback" => Len(sent[c]) = 1
    /\ kind[c] # "fallback" => Len(sent[c]) <= 1
    /\ kind[c] = "fallback" =>
         /\ Len(sent[c]) <= 2
         /\ Len(sent[c]) = 2 => (sent[c][1] = CdnRequest /\ sent[c][2] = DraftRequest)

\* An edgeSanityFetch whose fetch() rejected: failed after one request.
C17_Witness ==
  \E c \in EntryCalls :
    /\ IsEntry(c, "edge") /\ pc[c] = "failed"
    /\ ret[c] = TransportError
    /\ message[c] = NetworkCause
    /\ Len(sent[c]) = 1

\* C18: with the project id not configured, an edgeSanityFetch that has been
\* called has failed with the configuration error and issued no request: it
\* waits for nothing first.
C18_ConfigErrorNotDeferred ==
  \A c \in EntryCalls :
    (IsEntry(c, "edge") /\ ~config.projectId) =>
      /\ pc[c] = "failed"
      /\ ret[c] = ConfigError
      /\ sent[c] = <<>>

\* C26: a call that is waiting for the response of fetch() eventually stops
\* waiting (it returns or fails), whether or not the endpoint responds.
C26_FetchEventuallySettles ==
  \A c \in EntryCalls : (pc[c] = "net") ~> (pc[c] # "net")

\* --------------------------------------------------- generateCacheKey calls
\* generateCacheKey is called for each of the two requests.
GenerateKeys ==
  /\ keys = <<"", "">>
  /\ keys' = [i \in 1..2 |->
                generateCacheKey(keyArgs[i].dataset, keyArgs[i].query,
                                 keyArgs[i].params)]
  /\ UNCHANGED <<now, pc, kind, ret, gateVars, fbVars, cacheVars, entryVars,
                 keyArgs, auxVars>>

KeyNext == GenerateKeys

KeyInit ==
  /\ InitCalls
  /\ env = NoEnv
  /\ redisStore = EmptyStore
  /\ config = Configured
  /\ keyArgs \in KeyArgs \X KeyArgs

SpecKey == KeyInit /\ [][KeyNext]_vars

\* The mapping a params object stands for: its set of name/value pairs.
AsMapping(params) == {<<params[i].k, params[i].v>> : i \in 1..Len(params)}
KeysGenerated == keys # <<"", "">>

\* C19: two calls with the same dataset and query, and params that are equal
\* as sets of name/value pairs, return the same key whatever the insertion
\* order of the params.
C19_KeyOrderIndependent ==
  (/\ KeysGenerated
   /\ keyArgs[1].dataset = keyArgs[2].dataset
   /\ keyArgs[1].query = keyArgs[2].query
   /\ AsMapping(keyArgs[1].params) = AsMapping(keyArgs[2].params)) =>
     keys[1] = keys[2]

\* Two calls whose params hold the same two pairs in opposite insertion order
\* and that returned the same key.
C19_Witness ==
  /\ KeysGenerated
  /\ keyArgs[1].dataset = keyArgs[2].dataset
  /\ keyArgs[1].query = keyArgs[2].query
  /\ Len(keyArgs[1].params) = 2
  /\ keyArgs[2].params = <<keyArgs[1].params[2], keyArgs[1].params[1]>>
  /\ keys[1] = keys[2]
  /\ keys[1] = "sanity:production:q:a=1&b=null"

\* C20: two calls that differ in the dataset, in the query or in the params
\* mapping return different keys.
C20_KeysCollisionFree ==
  (/\ KeysGenerated
   /\ \/ keyArgs[1].dataset # keyArgs[2].dataset
      \/ keyArgs[1].query # keyArgs[2].query
      \/ AsMapping(keyArgs[1].params) # AsMapping(keyArgs[2].params)) =>
     keys[1] # keys[2]

\* ---------------------------------------------------------------- Rate gate
\* C7: no two throttle() completions are closer together than minInterval,
\* whatever the interleaving of the calls.
ThrottleCompletes == \E c \in Calls : Len(issued'[c]) > Len(issued[c])

C7_CompletionsSpaced ==
  [][(ThrottleCompletes /\ lastComp # None) =>
       (now - lastComp >= minInterval)]_vars

\* C8: a throttle() entered after an earlier throttle() returned completes,
\* and so lets its request start, no less than minInterval after that earlier
\* completion.
C8_BackToBackSpaced ==
  \A c \in Calls :
    (floor[c] # None /\ compAt[c] # None) => compAt[c] >= floor[c] + minInterval

\* A call that entered throttle() less than minInterval after the previous
\* completion, slept, and has issued its request.
C8_Witness ==
  \E c \in Calls :
    /\ pc[c] = "net"
    /\ slept[c]
    /\ floor[c] # None
    /\ compAt[c] = floor[c] + minInterval

\* ----------------------------------------------------- cachedSanityFetch
RedisError == [st |-> "redis", v |-> Null]
\* One caller at a time runs cachedSanityFetch here.
CacheCalls == {1}

\* "Populate caches": memoryCache.set, then the Redis write when enabled. v is
\* the fresh result, d what the call did so far, mem the memory cache.
Populate(c, o, v, d, mem) ==
  /\ memory' = MemSet(mem, maxSize, o.cacheKey, v, o.ttl, now)
  /\ result' = [result EXCEPT ![c] = Ok(v)]
  /\ IF o.useRedis /\ env.redis
       THEN /\ entry' = [entry EXCEPT ![c] = CacheEntry(v, now, o.ttl)]
            /\ pc' = [pc EXCEPT ![c] = "redisSet"]
            /\ ret' = [ret EXCEPT ![c] = NoRet]
            /\ did' = [did EXCEPT ![c] = d \cup {"memSet", "redisSet"}]
            /\ lastDone' = NoLast
       ELSE /\ entry' = [entry EXCEPT ![c] = NoEntry]
            /\ pc' = [pc EXCEPT ![c] = "done"]
            /\ ret' = [ret EXCEPT ![c] = Ok(v)]
            /\ did' = [did EXCEPT ![c] = d \cup {"memSet"}]
            /\ lastDone' = [cacheKey |-> o.cacheKey, value |-> v,
                            until |-> now + o.ttl * MsPerSecond]

\* "Layer 3: Fetch from origin": through unstable_cache when next/cache can be
\* required, which serves its own entry or calls edgeSanityFetch inside the
\* try; else edgeSanityFetch directly.
OriginEntry(c, o, d, mem) ==
  IF o.useNextCache /\ env.next /\ NextHit(nextStore[o.cacheKey], now)
    THEN /\ Populate(c, o, nextStore[o.cacheKey].value, d \cup {"nextHit"}, mem)
         /\ inTry' = [inTry EXCEPT ![c] = FALSE]
         /\ issued' = [issued EXCEPT ![c] = <<>>]
         /\ UNCHANGED <<lastRequest, wakeAt, fopts, floor, compAt, slept,
                        lastComp>>
    ELSE /\ BeginFetch(c, o.fetch, <<>>)
         /\ inTry' = [inTry EXCEPT ![c] = o.useNextCache /\ env.next]
         /\ memory' = mem
         /\ result' = [result EXCEPT ![c] = NoRet]
         /\ entry' = [entry EXCEPT ![c] = NoEntry]
         /\ ret' = [ret EXCEPT ![c] = NoRet]
         /\ did' = [did EXCEPT ![c] = d]
         /\ lastDone' = NoLast

\* cachedSanityFetch runs up to its first await, with cache options o: the
\* key, the memory layer, and on a miss the Redis read or the origin. It makes
\* no draft-mode lookup.
CachedCall(c, o) ==
  /\ LET get == MemGet(memory, o.cacheKey, now)
           repeated == /\ lastDone # NoLast
                       /\ lastDone.cacheKey = o.cacheKey
                       /\ ~o.force
                       /\ now <= lastDone.until
       IN
       /\ copts' = [copts EXCEPT ![c] = o]
       /\ expect' = [expect EXCEPT ![c] =
                       IF repeated THEN Ok(lastDone.value) ELSE NoRet]
       /\ redisEntry' = [redisEntry EXCEPT ![c] = NoEntry]
       /\ servedAt' = [servedAt EXCEPT ![c] =
                         IF ~o.force /\ MemoryHit(get.value) THEN now
                                                              ELSE None]
       /\ IF ~o.force /\ MemoryHit(get.value)
            THEN /\ memory' = get.cache
                 /\ memoryResult' = [memoryResult EXCEPT ![c] = get.value]
                 /\ ret' = [ret EXCEPT ![c] = Ok(get.value)]
                 /\ pc' = [pc EXCEPT ![c] = "done"]
                 /\ did' = [did EXCEPT ![c] = {"memGet"}]
                 /\ issued' = [issued EXCEPT ![c] = <<>>]
                 /\ result' = [result EXCEPT ![c] = NoRet]
                 /\ entry' = [entry EXCEPT ![c] = NoEntry]
                 /\ inTry' = [inTry EXCEPT ![c] = FALSE]
                 /\ lastDone' = NoLast
                 /\ UNCHANGED <<lastRequest, wakeAt, fopts, floor, compAt,
                                slept, lastComp>>
            ELSE /\ memoryResult' = [memoryResult EXCEPT ![c] =
                                       IF o.force THEN Null ELSE get.value]
                 /\ IF ~o.force /\ o.useRedis /\ env.redis
                      THEN /\ memory' = get.cache
                           /\ pc' = [pc EXCEPT ![c] = "redisGet"]
                           /\ did' = [did EXCEPT ![c] = {"memGet", "redisGet"}]
                           /\ issued' = [issued EXCEPT ![c] = <<>>]
                           /\ ret' = [ret EXCEPT ![c] = NoRet]
                           /\ result' = [result EXCEPT ![c] = NoRet]
                           /\ entry' = [entry EXCEPT ![c] = NoEntry]
                           /\ inTry' = [inTry EXCEPT ![c] = FALSE]
                           /\ lastDone' = NoLast
                           /\ UNCHANGED <<lastRequest, wakeAt, fopts, floor,
                                          compAt, slept, lastComp>>
                      ELSE OriginEntry(c, o,
                             IF o.force THEN {} ELSE {"memGet"},
                             IF o.force THEN memory ELSE get.cache)
  /\ kind' = [kind EXCEPT ![c] = "cached"]
  /\ replies' = [replies EXCEPT ![c] = <<>>]

\* A caller invokes cachedSanityFetch.
CachedStart(c) ==
  /\ Settled(c)
  /\ \E o \in CacheOpts : CachedCall(c, o)
  /\ UNCHANGED <<now, draftLookup, redisStore, nextStore, env>>
  /\ UNCHANGED <<entryVars, keyVars, auxVars>>

\* redis.get answers or throws.
RedisGetReply(c) ==
  /\ pc[c] = "redisGet"
  /\ \E threw \in BOOLEAN :
       LET o == copts[c]
           e == redisStore[o.cacheKey]
       IN
       IF threw /\ ~RedisErrorSwallowed
         THEN /\ pc' = [pc EXCEPT ![c] = "failed"]
              /\ ret' = [ret EXCEPT ![c] = RedisError]
              /\ did' = [did EXCEPT ![c] = @ \cup {"redisGetErr"}]
              /\ lastDone' = NoLast
              /\ UNCHANGED <<memory, redisEntry, result, entry, inTry,
                             gateVars, servedAt>>
         ELSE IF ~threw /\ RedisHit(e, now)
           THEN /\ redisEntry' = [redisEntry EXCEPT ![c] = e]
                /\ memory' = MemSet(memory, maxSize, o.cacheKey, e.value,
                                    o.ttl, now)
                /\ ret' = [ret EXCEPT ![c] = Ok(e.value)]
                /\ pc' = [pc EXCEPT ![c] = "done"]
                /\ did' = [did EXCEPT ![c] = @ \cup {"redisHit", "memSet"}]
                /\ lastDone' = NoLast
                /\ servedAt' = [servedAt EXCEPT ![c] = now]
                /\ UNCHANGED <<result, entry, inTry, gateVars>>
           ELSE /\ redisEntry' = [redisEntry EXCEPT ![c] =
                                   IF threw THEN NoEntry ELSE e]
                /\ OriginEntry(c, o,
                     did[c] \cup (IF threw THEN {"redisGetErr"} ELSE {}),
                     memory)
                /\ UNCHANGED servedAt
  /\ UNCHANGED <<now, kind, fbVars, redisStore, nextStore, env, copts,
                 memoryResult, expect>>
  /\ UNCHANGED <<entryVars, keyVars, auxVars>>

\* The origin request of c settles with out: the populate step on success,
\* the retry of the catch or the rejection otherwise.
CachedDeliver(c, out) ==
       LET o == copts[c] IN
       /\ replies' = [replies EXCEPT ![c] = Append(@, out)]
       /\ IF FetchSucceeded(out)
            THEN /\ nextStore' =
                      IF inTry[c]
                        THEN [nextStore EXCEPT ![o.cacheKey] =
                                CacheEntry(out.v, now, o.ttl)]
                        ELSE nextStore
                 /\ Populate(c, o, out.v, did[c], memory)
                 /\ inTry' = [inTry EXCEPT ![c] = FALSE]
                 /\ UNCHANGED gateVars
            ELSE IF inTry[c]
              THEN /\ BeginFetch(c, fopts[c], issued[c])
                   /\ inTry' = [inTry EXCEPT ![c] = FALSE]
                   /\ lastDone' = NoLast
                   /\ UNCHANGED <<memory, nextStore, result, entry, ret, did>>
              ELSE /\ ret' = [ret EXCEPT ![c] = out]
                   /\ pc' = [pc EXCEPT ![c] = "failed"]
                   /\ lastDone' = NoLast
                   /\ UNCHANGED <<memory, nextStore, result, entry, inTry,
                                  did, gateVars>>

\* The response of the origin request arrives.
CachedReply(c) ==
  /\ pc[c] = "net"
  /\ kind[c] = "cached"
  /\ \E out \in CacheOutcomes : CachedDeliver(c, out)
  /\ UNCHANGED <<now, kind, draftLookup, redisStore, env, copts,
                 memoryResult, redisEntry, expect, servedAt>>
  /\ UNCHANGED <<entryVars, keyVars, auxVars>>

\* redisWriter.set answers or throws.
RedisSetReply(c) ==
  /\ pc[c] = "redisSet"
  /\ \E threw \in BOOLEAN :
       IF threw /\ ~RedisErrorSwallowed
         THEN /\ pc' = [pc EXCEPT ![c] = "failed"]
              /\ ret' = [ret EXCEPT ![c] = RedisError]
              /\ did' = [did EXCEPT ![c] = @ \cup {"redisSetErr"}]
              /\ lastDone' = NoLast
              /\ UNCHANGED redisStore
         ELSE /\ redisStore' = IF threw THEN redisStore
                               ELSE [redisStore EXCEPT ![copts[c].cacheKey] =
                                       entry[c]]
              /\ did' = [did EXCEPT ![c] =
                           @ \cup (IF threw THEN {"redisSetErr"} ELSE {})]
              /\ ret' = [ret EXCEPT ![c] = result[c]]
              /\ pc' = [pc EXCEPT ![c] = "done"]
              /\ lastDone' = [cacheKey |-> copts[c].cacheKey,
                              value |-> result[c].v,
                              until |-> entry[c].validUntil]
  /\ UNCHANGED <<now, kind, gateVars, fbVars, memory, nextStore, env, copts,
                 memoryResult, redisEntry, result, entry, inTry, expect,
                 servedAt>>
  /\ UNCHANGED <<entryVars, keyVars, auxVars>>

CacheTick ==
  /\ now + CacheTickMs <= Epoch + CacheMaxTicks * CacheTickMs
  /\ now' = now + CacheTickMs
  /\ UNCHANGED <<pc, kind, ret, gateVars, fbVars, cacheVars>>
  /\ UNCHANGED <<entryVars, keyVars, auxVars>>

Next ==
  \/ \E c \in CacheCalls : CachedStart(c)
  \/ \E c \in CacheCalls : RedisGetReply(c)
  \/ \E c \in CacheCalls : ThrottleWake(c)
  \/ \E c \in CacheCalls : CachedReply(c)
  \/ \E c \in CacheCalls : RedisSetReply(c)
  \/ CacheTick

Spec == Init /\ [][Next]_vars

\* ---------------------------------------------- cachedSanityFetch claims
IsCached(c) == kind[c] = "cached"
CacheWrites == {"memSet", "redisSet"}

\* c has reached "Layer 3: Fetch from origin".
ReachedOrigin(c) ==
  \/ pc[c] \in {"throttle", "net"}
  \/ issued[c] # <<>>
  \/ "nextHit" \in did[c]

\* C1: the same unforced cachedSanityFetch issued again, right after the
\* first call returned and within its TTL, makes no network call and returns
\* the value the first call returned.
C1_RepeatServedFromCache ==
  \A c \in CacheCalls :
    (IsCached(c) /\ expect[c] # NoRet) =>
      /\ issued[c] = <<>>
      /\ pc[c] \notin {"throttle", "net", "failed"}
      /\ pc[c] = "done" => ret[c] = expect[c]

\* C2: a cachedSanityFetch with force = true that has returned has made a
\* network call.
C2_ForceFetches ==
  \A c \in CacheCalls :
    (IsCached(c) /\ copts[c].force /\ pc[c] = "done") => Len(issued[c]) >= 1

\* The memory cache holds an entry for key that has not expired at time t.
LiveInMemory(key, t) ==
  \E i \in 1..Len(memory) : memory[i].key = key /\ ~(t > memory[i].validUntil)

\* C3: within one unforced call the first live hit wins: a call that is
\* reading Redis or going to the origin has no live entry for its key in the
\* memory cache, and a call that hit Redis returned the Redis value without
\* reaching the origin.
C3_FirstLiveHitWins ==
  \A c \in CacheCalls :
    (IsCached(c) /\ ~copts[c].force) =>
      /\ pc[c] \in {"redisGet", "throttle", "net"} =>
            ~LiveInMemory(copts[c].cacheKey, now)
      /\ "redisHit" \in did[c] =>
            /\ pc[c] = "done"
            /\ ret[c] = Ok(redisEntry[c].value)
            /\ ~ReachedOrigin(c)

\* C4: once an origin fetch of the call has failed, the call fails with that
\* error.
C4_FetchFailurePropagates ==
  \A c \in CacheCalls :
    (/\ IsCached(c) /\ pc[c] \in {"done", "failed"}
     /\ replies[c] # <<>>
     /\ replies[c][1].st # "ok") =>
       (pc[c] = "failed" /\ ret[c] = replies[c][1])

\* C5: a call one of whose origin fetches has failed has written no entry to
\* the memory cache or to Redis.
C5_FailedFetchWritesNothing ==
  \A c \in CacheCalls :
    (/\ IsCached(c)
     /\ \E i \in 1..Len(replies[c]) : replies[c][i].st # "ok") =>
       did[c] \cap CacheWrites = {}

\* C6: no call fails because Redis failed: a call fails only with the error
\* of its last origin fetch; after a failed Redis read the call goes on to the
\* origin; after a failed Redis write the call has returned the fresh value
\* and the memory cache holds it.
C6_RedisFailureAbsorbed ==
  \A c \in CacheCalls :
    IsCached(c) =>
      /\ pc[c] = "failed" =>
            /\ replies[c] # <<>>
            /\ ret[c] = replies[c][Len(replies[c])]
            /\ ret[c].st \in {"http", "transport"}
      /\ "redisGetErr" \in did[c] => ReachedOrigin(c)
      /\ "redisSetErr" \in did[c] =>
            /\ pc[c] = "done"
            /\ result[c].st = "ok"
            /\ ret[c] = result[c]
            /\ \E i \in 1..Len(memory) :
                 /\ memory[i].key = copts[c].cacheKey
                 /\ memory[i].value = ret[c].v

\* A call whose Redis read and Redis write both threw and that still returned
\* the fetched document.
C6_Witness ==
  \E c \in CacheCalls :
    /\ IsCached(c) /\ pc[c] = "done"
    /\ {"redisGetErr", "redisSetErr"} \subseteq did[c]
    /\ Len(issued[c]) = 1
    /\ ret[c] = Ok(DocA)

\* C21: an unforced cachedSanityFetch that returned a cached value without a
\* network call was not served the value of a Redis entry whose valid-until
\* had already passed when it was served.
C21_ExpiredEntryNotServed ==
  \A c \in CacheCalls :
    (/\ IsCached(c) /\ pc[c] = "done" /\ ~copts[c].force
     /\ servedAt[c] # None /\ issued[c] = <<>>) =>
      LET e == redisStore[copts[c].cacheKey] IN
        ~(e # NoEntry /\ ret[c] = Ok(e.value) /\ servedAt[c] > e.validUntil)

\* C29: after a live Redis hit, the memory entry written for the key is valid
\* no longer than the Redis entry it was copied from.
C29_MemoryCopyWithinRemoteValidity ==
  \A c \in CacheCalls :
    (IsCached(c) /\ pc[c] = "done" /\ "redisHit" \in did[c]) =>
      \A i \in 1..Len(memory) :
        memory[i].key = copts[c].cacheKey =>
          memory[i].validUntil <= redisEntry[c].validUntil

\* C37: a cachedSanityFetch call issues at most one origin request, whether
\* the request fails or not and whether the Next.js wrapper is used or not.
C37_AtMostOneOriginRequest ==
  \A c \in CacheCalls : IsCached(c) => Len(issued[c]) <= 1

\* C34: when an origin request of a cachedSanityFetch is answered with a
\* result, the memory cache holds right away, under the key of the call, one
\* entry with that value and valid-until = now + ttl, and the Redis write of
\* that value is begun when Redis is enabled; when the write did not fail
\* Redis holds the value; and the same call made again, unforced and within
\* the ttl, makes no network call and returns that value.
C34_FetchedValueCached ==
  /\ [][\A c \in CacheCalls :
         (/\ kind[c] = "cached"
          /\ Len(replies'[c]) = Len(replies[c]) + 1
          /\ replies'[c][Len(replies'[c])].st = "ok") =>
           LET o == copts[c]
               v == replies'[c][Len(replies'[c])].v
               at == {i \in 1..Len(memory') : memory'[i].key = o.cacheKey}
           IN /\ Cardinality(at) = 1
              /\ \A i \in at :
                   /\ memory'[i].value = v
                   /\ memory'[i].validUntil = now + o.ttl * MsPerSecond
              /\ (o.useRedis /\ env.redis) =>
                   pc'[c] = "redisSet" /\ entry'[c].value = v]_vars
  /\ [](\A c \in CacheCalls :
          (/\ IsCached(c) /\ pc[c] = "done"
           /\ "redisSet" \in did[c] /\ "redisSetErr" \notin did[c]) =>
            redisStore[copts[c].cacheKey].value = ret[c].v)
  /\ [](\A c \in CacheCalls :
          (IsCached(c) /\ expect[c] # NoRet) =>
            /\ issued[c] = <<>>
            /\ pc[c] \notin {"throttle", "net", "failed"}
            /\ pc[c] = "done" => ret[c] = expect[c])

\* ------------------------------------------- sanityFetchWithFallback claims
IsFallback(c) == kind[c] = "fallback"
DraftOff(c)   == ~isDraftModeEnabled(draftLookup[c])

\* The CDN request was answered and the draft request has been started: it
\* waits in throttle() or has been issued.
SecondFetchBegun(c) ==
  /\ Len(replies[c]) >= 1
  /\ \/ pc[c] = "throttle"
     \/ Len(issued[c]) = 2

\* The requests of c are in the order the entry point prescribes, given which
\* results count as "no published content".
FallbackOrder(c, NoContent(_)) ==
  /\ Len(issued[c]) <= 2
  /\ Len(replies[c]) <= Len(issued[c])
  /\ ~DraftOff(c) =>
       /\ Len(issued[c]) <= 1
       /\ Len(issued[c]) = 1 => issued[c][1] = AuthOpts
       /\ Settled(c) => Len(issued[c]) = 1 /\ ret[c] = replies[c][1]
  /\ DraftOff(c) =>
       /\ Len(issued[c]) >= 1 => issued[c][1] = CdnOpts
       /\ SecondFetchBegun(c) =>
            /\ replies[c][1].st = "ok"
            /\ NoContent(replies[c][1].v)
       /\ Len(issued[c]) = 2 => issued[c][2] = AuthOpts
       /\ (Settled(c) /\ Len(issued[c]) = 2) => ret[c] = replies[c][2]
       /\ (Len(replies[c]) >= 1 /\ replies[c][1].st = "ok"
             /\ ~NoContent(replies[c][1].v)) =>
            /\ pc[c] = "done"
            /\ Len(issued[c]) = 1
            /\ ret[c] = replies[c][1]

IsNull(v) == v.t = "null"
IsFalsy(v) == v \in {Null, Zero, EmptyStr, False}
IsFalsyOrEmpty(v) == IsFalsy(v) \/ v = EmptyArr

\* C9 as stated: draft mode active, one authenticated non-CDN request; draft
\* mode inactive, a CDN request first and a second, authenticated request
\* only if the CDN result is null, whose value is returned; a non-null CDN
\* result is returned with no second request.
C9_OrderNullOnly ==
  \A c \in FbCalls : IsFallback(c) => FallbackOrder(c, IsNull)

\* C9 as amended: the same order, the second request being issued exactly
\* when the CDN result is falsy (null, 0, false or the empty string).
C9_OrderFalsy ==
  \A c \in FbCalls : IsFallback(c) => FallbackOrder(c, IsFalsy)

\* Draft mode inactive, the CDN answered null, the authenticated request
\* followed and its document is what the call returned.
C9_Witness ==
  \E c \in FbCalls :
    /\ IsFallback(c) /\ DraftOff(c) /\ pc[c] = "done"
    /\ issued[c] = <<CdnOpts, AuthOpts>>
    /\ replies[c] = <<Ok(Null), Ok(DocA)>>
    /\ ret[c] = Ok(DocA)

\* C10 as stated: with draft mode inactive every falsy or empty CDN result,
\* the empty array and zero included, triggers the second fetch.
C10_FalsyOrEmptyTriggers ==
  \A c \in FbCalls :
    (/\ IsFallback(c) /\ DraftOff(c)
     /\ Len(replies[c]) >= 1
     /\ replies[c][1].st = "ok"
     /\ IsFalsyOrEmpty(replies[c][1].v)) => SecondFetchBegun(c)

\* C10 as amended: every falsy CDN result (null, 0, false, "") triggers the
\* second fetch; the empty array is truthy and is returned as the result,
\* with no second fetch.
C10_FalsyTriggersEmptyArrayDoesNot ==
  \A c \in FbCalls :
    (/\ IsFallback(c) /\ DraftOff(c)
     /\ Len(replies[c]) >= 1
     /\ replies[c][1].st = "ok") =>
       /\ IsFalsy(replies[c][1].v) => SecondFetchBegun(c)
       /\ replies[c][1].v = EmptyArr =>
            /\ ~SecondFetchBegun(c)
            /\ pc[c] = "done"
            /\ ret[c] = Ok(EmptyArr)

\* The CDN answered 0 and the second, authenticated request has been issued.
C10_Witness ==
  \E c \in FbCalls :
    /\ IsFallback(c) /\ DraftOff(c)
    /\ Len(replies[c]) >= 1
    /\ replies[c][1] = Ok(Zero)
    /\ issued[c] = <<CdnOpts, AuthOpts>>

\* C39: with draft mode inactive, a failed CDN request makes the call fail
\* with that error, the CDN request being the only one issued; the draft
\* request is begun only after the CDN request returned a falsy result.
C39_FirstFailurePropagates ==
  \A c \in FbCalls :
    (IsFallback(c) /\ DraftOff(c) /\ Len(replies[c]) >= 1) =>
      /\ replies[c][1].st # "ok" =>
           /\ pc[c] = "failed"
           /\ ret[c] = replies[c][1]
           /\ issued[c] = <<CdnOpts>>
           /\ Len(replies[c]) = 1
      /\ SecondFetchBegun(c) =>
           replies[c][1].st = "ok" /\ IsFalsy(replies[c][1].v)

\* Draft mode inactive: the CDN request failed and the call has failed with
\* its error after that one request.
C39_Witness ==
  \E c \in FbCalls :
    /\ IsFallback(c) /\ DraftOff(c) /\ pc[c] = "failed"
    /\ replies[c] = <<HttpError>>
    /\ ret[c] = HttpError
    /\ issued[c] = <<CdnOpts>>

\* ------------------------------------------------------------ MemoryCache
\* The operations that cachedSanityFetch and clearSanityCache calls make on
\* the one memoryCache, in any order. Each is synchronous: it runs to its end
\* before any other code of the isolate runs. The capacity is MemCap here.
MemValues == {DocA}

MemFrame ==
  UNCHANGED <<pc, kind, ret, gateVars, fbVars, redisStore, nextStore, env,
              callVars, lastDone, entryVars, keyVars, fanVars, clear,
              originVars>>

\* memoryCache.get(key)
MemoryGet ==
  /\ opCount < MaxMemOps
  /\ \E k \in LruKeys :
       LET get == MemGet(memory, k, now) IN
       /\ memory' = get.cache
       /\ accessed' = IF MemIndex(get.cache, k) # 0
                        THEN [accessed EXCEPT ![k] = opCount + 1]
                        ELSE accessed
       /\ lastOp' = [op |-> "get", key |-> k, evicted |-> {},
                     returned |-> get.value]
  /\ opCount' = opCount + 1
  /\ UNCHANGED now
  /\ MemFrame

\* memoryCache.set(key, value, ttl)
MemorySet ==
  /\ opCount < MaxMemOps
  /\ \E k \in LruKeys, v \in MemValues, ttl \in Ttls :
       LET after == MemSet(memory, MemCap, k, v, ttl, now) IN
       /\ memory' = after
       /\ accessed' = [accessed EXCEPT ![k] = opCount + 1]
       /\ lastOp' = [op |-> "set", key |-> k,
                     evicted |-> {memory[i].key : i \in 1..Len(memory)}
                                   \ {after[i].key : i \in 1..Len(after)},
                     returned |-> Null]
  /\ opCount' = opCount + 1
  /\ UNCHANGED now
  /\ MemFrame

\* memoryCache.clear()
MemoryClear ==
  /\ opCount < MaxMemOps
  /\ memory' = <<>>
  /\ lastOp' = [op |-> "clear", key |-> "", evicted |-> {},
                returned |-> Null]
  /\ opCount' = opCount + 1
  /\ UNCHANGED <<now, accessed>>
  /\ MemFrame

MemInit ==
  /\ InitCalls
  /\ env = NoEnv
  /\ redisStore = EmptyStore
  /\ config = Configured
  /\ keyArgs = <<NoKeyArgs, NoKeyArgs>>

MemNext ==
  \/ MemoryGet
  \/ MemorySet
  \/ MemoryClear
  \/ CacheTick

SpecMemory == MemInit /\ [][MemNext]_vars

\* ------------------------------------------------------ MemoryCache claims
MemKeysOf(cache) == {cache[i].key : i \in 1..Len(cache)}

\* C22: a set of a key that is not present, on a cache at capacity, evicts
\* exactly one entry, the one whose latest access (read hit or write) is the
\* oldest; any other set evicts nothing.
C22_EvictsLeastRecentlyAccessed ==
  [][(lastOp'.op = "set" /\ opCount' = opCount + 1) =>
       LET k == lastOp'.key
           atCapacity == Len(memory) >= MemCap /\ k \notin MemKeysOf(memory)
       IN /\ atCapacity =>
               /\ Cardinality(lastOp'.evicted) = 1
               /\ \A e \in lastOp'.evicted :
                    \A other \in MemKeysOf(memory) \ {e} :
                      accessed[e] < accessed[other]
          /\ ~atCapacity => lastOp'.evicted = {}]_vars

\* C23: the memory cache never holds more entries than its capacity, no key
\* appears twice in its order, a key that was just read with a hit is the
\* most recent one and a key that was just written is present.
C23_MemoryBoundedAndOrdered ==
  /\ Len(memory) <= MemCap
  /\ \A i, j \in 1..Len(memory) : i # j => memory[i].key # memory[j].key
  /\ (lastOp.op = "get" /\ lastOp.key \in MemKeysOf(memory)) =>
        memory[Len(memory)].key = lastOp.key
  /\ lastOp.op = "set" => lastOp.key \in MemKeysOf(memory)

\* After an eviction, a read hit on a full cache.
C23_Witness ==
  /\ Len(memory) = MemCap
  /\ lastOp.op = "get"
  /\ memory[Len(memory)].key = lastOp.key
  /\ \E k \in LruKeys : k \notin MemKeysOf(memory) /\ accessed[k] > 0

\* ------------------------------------------------------- warmSanityCache
\* `.catch(error => console.error(...))` on each cachedSanityFetch promise.
WarmCatchMissing == FALSE

WarmCatches == TRUE

\* The options cachedSanityFetch works with for item i: `cache: { ttl }`, the
\* rest at its defaults.
WarmOpts(i, ttl) ==
  [cacheKey |-> WarmKeyOf(i), ttl |-> ttl, force |-> FALSE,
   useRedis |-> TRUE, useNextCache |-> TRUE, fetch |-> NoOpts]

\* warmSanityCache(queries) is called, in a request whose draft mode is d,
\* with a list of n requests; item i runs in call slot i. It is called once
\* here.
WarmStart ==
  /\ fan.pc = "idle"
  /\ \A c \in Calls : Settled(c)
  /\ \E n \in 1..NumCalls :
       fan' = [NoFan EXCEPT !.name = "warm", !.pc = "map", !.n = n]
  /\ \E d \in DraftLookups : draftLookup' = [c \in Calls |-> d]
  /\ UNCHANGED <<now, pc, kind, ret, gateVars, replies, cacheVars, entryVars,
                 keyVars, lruVars, originVars, results, clear>>

\* queries.map(...): the next item's cachedSanityFetch runs up to its first
\* await. The whole map is synchronous, so nothing else runs in between.
WarmItem ==
  /\ fan.name = "warm"
  /\ fan.pc = "map"
  /\ LET c == fan.started + 1 IN
       /\ \E ttl \in Ttls : CachedCall(c, WarmOpts(c, ttl))
       /\ fan' = [fan EXCEPT !.started = c,
                             !.pc = IF c = fan.n THEN "wait" ELSE "map"]
  /\ UNCHANGED <<now, draftLookup, redisStore, nextStore, env>>
  /\ UNCHANGED <<entryVars, keyVars, lruVars, originVars, results, clear>>

\* Promise.all settles: it rejects as soon as one of its promises rejects, and
\* fulfils once all have fulfilled; `await` then throws or returns.
WarmSettle ==
  /\ fan.name = "warm"
  /\ fan.pc = "wait"
  /\ IF ~WarmCatches /\ \E c \in 1..fan.n : pc[c] = "failed"
       THEN fan' = [fan EXCEPT !.pc = "threw"]
       ELSE /\ \A c \in 1..fan.n : Settled(c)
            /\ fan' = [fan EXCEPT !.pc = "done"]
  /\ UNCHANGED <<now, pc, kind, ret, gateVars, fbVars, cacheVars, entryVars,
                 keyVars, lruVars, originVars, results, clear>>

\* Edge runtime (next/cache cannot be required), with and without Redis.
WarmEnvs == {e \in Envs : ~e.next}

WarmInit ==
  /\ InitCalls
  /\ env \in WarmEnvs
  /\ redisStore = EmptyStore
  /\ config = Configured
  /\ keyArgs = <<NoKeyArgs, NoKeyArgs>>

\* The items' awaits resume only once the synchronous map has finished; the
\* clock is followed while warmSanityCache is waiting.
WarmNext ==
  \/ WarmStart
  \/ WarmItem
  \/ fan.pc = "wait" /\ \E c \in Calls : RedisGetReply(c)
  \/ fan.pc = "wait" /\ \E c \in Calls : ThrottleWake(c)
  \/ fan.pc = "wait" /\ \E c \in Calls : CachedReply(c)
  \/ fan.pc = "wait" /\ \E c \in Calls : RedisSetReply(c)
  \/ WarmSettle
  \/ fan.pc = "wait" /\ CacheTick

SpecWarm == WarmInit /\ [][WarmNext]_vars

\* ------------------------------------------------ warmSanityCache claims
WarmItems == 1..fan.n
\* The origin answered item c's latest request with a result.
OriginAnswered(c) ==
  replies[c] # <<>> /\ replies[c][Len(replies[c])].st = "ok"

\* C24: warmSanityCache never throws; once its map has run, cachedSanityFetch
\* has been called for every listed request; and when it has completed, every
\* item has settled and every item whose origin request was answered has
\* returned that answer and left it in the memory cache, whatever happened to
\* the other items.
C24_WarmIsolatesFailures ==
  fan.name = "warm" =>
    /\ fan.pc # "threw"
    /\ fan.pc \in {"wait", "done"} =>
         \A c \in WarmItems : IsCached(c) /\ copts[c].cacheKey = WarmKeyOf(c)
    /\ fan.pc = "done" =>
         \A c \in WarmItems :
           /\ Settled(c)
           /\ OriginAnswered(c) =>
                LET v == replies[c][Len(replies[c])].v IN
                /\ pc[c] = "done"
                /\ ret[c] = Ok(v)
                /\ \E i \in 1..Len(memory) :
                     memory[i].key = WarmKeyOf(c) /\ memory[i].value = v

\* A warm-up of two requests has completed: the first one failed, the second
\* one was fetched and cached.
C24_Witness ==
  /\ fan.name = "warm" /\ fan.pc = "done" /\ fan.n = 2
  /\ pc[1] = "failed"
  /\ pc[2] = "done" /\ ret[2] = Ok(DocA) /\ Len(issued[2]) >= 1
  /\ \E i \in 1..Len(memory) :
       memory[i].key = WarmKeyOf(2) /\ memory[i].value = DocA

\* C30: while draft mode is active, every origin request of a
\* cachedSanityFetch is an authenticated one.
C30_DraftModeOriginAuthenticated ==
  \A c \in Calls :
    (IsCached(c) /\ isDraftModeEnabled(draftLookup[c])) =>
      \A i \in 1..Len(issued[c]) : issued[c][i].useAuth

\* ------------------------------------------------------ batchSanityFetch
\* The `catch` around each item's `await edgeSanityFetch(...)`.
BatchCatchMissing == FALSE

BatchCatches == TRUE

\* batchSanityFetch(queries, dataset, options) is called with n queries and
\* `results = {}`; the item of key BatchKeyNames[i] runs in call slot i. It is
\* called once here.
BatchStart ==
  /\ fan.pc = "idle"
  /\ \A c \in Calls : Settled(c)
  /\ \E n \in 1..NumCalls, o \in FetchOpts :
       fan' = [NoFan EXCEPT !.name = "batch", !.pc = "map", !.n = n,
                            !.opts = o]
  /\ results' = [k \in BatchKeys |-> Unset]
  /\ UNCHANGED <<now, pc, kind, ret, gateVars, fbVars, cacheVars, entryVars,
                 keyVars, lruVars, originVars, clear>>

\* Object.entries(queries).map(...): the next item calls edgeSanityFetch with
\* `...options`, which runs up to its first await.
BatchItem ==
  /\ fan.name = "batch"
  /\ fan.pc = "map"
  /\ LET c == fan.started + 1 IN
       /\ kind' = [kind EXCEPT ![c] = "batch"]
       /\ ret' = [ret EXCEPT ![c] = NoRet]
       /\ BeginFetch(c, fan.opts, <<>>)
       /\ fan' = [fan EXCEPT !.started = c,
                             !.pc = IF c = fan.n THEN "wait" ELSE "map"]
  /\ UNCHANGED <<now, fbVars, cacheVars, entryVars, keyVars, lruVars, originVars,
                 results, clear>>

\* The edgeSanityFetch of item c settles and the item assigns results[key]:
\* the value, or null in the catch.
BatchReply(c) ==
  /\ fan.name = "batch"
  /\ pc[c] = "net"
  /\ kind[c] = "batch"
  /\ \E out \in CacheOutcomes :
       /\ ret' = [ret EXCEPT ![c] = out]
       /\ pc' = [pc EXCEPT ![c] = IF out.st = "ok" THEN "done" ELSE "failed"]
       /\ results' = IF out.st = "ok"
                       THEN [results EXCEPT ![BatchKeyNames[c]] = out.v]
                     ELSE IF BatchCatches
                       THEN [results EXCEPT ![BatchKeyNames[c]] = Null]
                     ELSE results
  /\ UNCHANGED <<now, kind, gateVars, fbVars, cacheVars, entryVars, keyVars,
                 lruVars, originVars, fan, clear>>

\* Promise.all settles and batchSanityFetch returns `results` or throws.
BatchSettle ==
  /\ fan.name = "batch"
  /\ fan.pc = "wait"
  /\ IF ~BatchCatches /\ \E c \in 1..fan.n : pc[c] = "failed"
       THEN fan' = [fan EXCEPT !.pc = "threw"]
       ELSE /\ \A c \in 1..fan.n : Settled(c)
            /\ fan' = [fan EXCEPT !.pc = "done"]
  /\ UNCHANGED <<now, pc, kind, ret, gateVars, fbVars, cacheVars, entryVars,
                 keyVars, lruVars, originVars, results, clear>>

BatchNext ==
  \/ BatchStart
  \/ BatchItem
  \/ fan.pc = "wait" /\ \E c \in Calls : ThrottleWake(c)
  \/ fan.pc = "wait" /\ \E c \in Calls : BatchReply(c)
  \/ BatchSettle
  \/ fan.pc = "wait" /\ GateTick

SpecBatch == Init /\ [][BatchNext]_vars

\* ------------------------------------------------ batchSanityFetch claims
\* C25: batchSanityFetch never throws, and when it has returned, `results`
\* has an entry for each input key and for no other key: the value its query
\* fetched, or null when its fetch failed.
C25_BatchPartialResults ==
  fan.name = "batch" =>
    /\ fan.pc # "threw"
    /\ fan.pc = "done" =>
         /\ {k \in BatchKeys : results[k] # Unset}
              = {BatchKeyNames[c] : c \in 1..fan.n}
         /\ \A c \in 1..fan.n :
              /\ Len(issued[c]) = 1
              /\ results[BatchKeyNames[c]] =
                   IF ret[c].st = "ok" THEN ret[c].v ELSE Null

\* A batch of two has returned: the first query failed, the second fetched a
\* document.
C25_Witness ==
  /\ fan.name = "batch" /\ fan.pc = "done" /\ fan.n = 2
  /\ ret[1] = HttpError /\ results[BatchKeyNames[1]] = Null
  /\ ret[2] = Ok(DocA) /\ results[BatchKeyNames[2]] = DocA

\* ------------------------------------------------------ clearSanityCache
\* The options a caller passes; "" stands for a dataset or pattern that is
\* left out (an empty string is as falsy as undefined in the code).
ClearDatasets == {"", "production", "staging"}
ClearPatterns == {"", "v2:*", "sanity:staging:q1"}
ClearOpts == [dataset : ClearDatasets, pattern : ClearPatterns,
              clearMemory : BOOLEAN, clearRedis : BOOLEAN]

\* `pattern || (dataset ? `sanity:${dataset}:*` : 'sanity:*')`, with the
\* dataset consulted first.
KeyPatternDatasetFirst(o) ==
  IF o.dataset # "" THEN "sanity:" \o o.dataset \o ":*"
  ELSE IF o.pattern # "" THEN o.pattern
  ELSE "sanity:*"

\* `pattern || (dataset ? `sanity:${dataset}:*` : 'sanity:*')`
KeyPattern(o) ==
  IF o.pattern # "" THEN o.pattern
  ELSE IF o.dataset # "" THEN "sanity:" \o o.dataset \o ":*"
  ELSE "sanity:*"

\* Redis KEYS: a pattern that ends in * matches the keys that start with the
\* text before it; a pattern without wildcard matches the key equal to it.
Matches(pattern, key) ==
  LET n == Len(pattern) IN
    IF n > 0 /\ SubSeq(pattern, n, n) = "*"
      THEN /\ Len(key) >= n - 1
           /\ SubSeq(key, 1, n - 1) = SubSeq(pattern, 1, n - 1)
      ELSE key = pattern

\* redis.keys(pattern) on the store as it is now.
RedisKeys(pattern) ==
  {k \in StoreKeys : redisStore[k] # NoEntry /\ Matches(pattern, k)}

\* The try/catch around the Redis clear.
ClearCatches == TRUE

\* The memory cache would be cleared whenever clearMemory is set.
ClearsMemoryAlways(o) == o.clearMemory

\* `if (clearMemory) { if (!dataset && !pattern) memoryCache.clear(); ... }`
ClearsMemory(o) == o.clearMemory /\ o.dataset = "" /\ o.pattern = ""

\* clearSanityCache(o) is called (once here) and runs up to its first await:
\* the memory part, then redis.keys when Redis is to be cleared.
ClearStart ==
  /\ clear.pc = "idle"
  /\ \E o \in ClearOpts :
       /\ memory' = IF ClearsMemory(o) THEN <<>> ELSE memory
       /\ clear' = [clear EXCEPT
                      !.opts = o,
                      !.pc = IF o.clearRedis /\ env.redis THEN "scan"
                                                           ELSE "done",
                      !.at = IF o.clearRedis /\ env.redis THEN None ELSE now]
  /\ UNCHANGED <<now, pc, kind, ret, gateVars, fbVars, redisStore, nextStore,
                 env, callVars, lastDone, entryVars, keyVars, lruVars, originVars,
                 fanVars>>

\* redis.keys answers or throws; with keys found, redisWriter.del is sent.
ClearScanReply ==
  /\ clear.pc = "scan"
  /\ \E threw \in BOOLEAN :
       IF threw
         THEN clear' = [clear EXCEPT
                          !.pc = IF ClearCatches THEN "done" ELSE "threw",
                          !.at = now,
                          !.redisError = TRUE]
         ELSE LET found == RedisKeys(KeyPattern(clear.opts)) IN
              clear' = [clear EXCEPT
                          !.keys = found,
                          !.pc = IF found # {} THEN "del" ELSE "done",
                          !.at = IF found # {} THEN None ELSE now]
  /\ UNCHANGED <<now, pc, kind, ret, gateVars, fbVars, cacheVars, entryVars,
                 keyVars, lruVars, originVars, fanVars>>

\* redisWriter.del(...keys) answers or throws; a del that throws may or may
\* not have been carried out by the server.
ClearDelReply ==
  /\ clear.pc = "del"
  /\ \E threw \in BOOLEAN, applied \in BOOLEAN :
       /\ ~threw => applied
       /\ redisStore' = IF applied
                          THEN [k \in StoreKeys |->
                                  IF k \in clear.keys THEN NoEntry
                                                      ELSE redisStore[k]]
                          ELSE redisStore
       /\ clear' = [clear EXCEPT
                      !.pc = IF threw /\ ~ClearCatches THEN "threw"
                                                       ELSE "done",
                      !.at = now,
                      !.redisError = threw]
  /\ UNCHANGED <<now, pc, kind, ret, gateVars, fbVars, memory, nextStore, env,
                 callVars, lastDone, entryVars, keyVars, lruVars, originVars, fanVars>>

\* The cachedSanityFetch calls made around the clear, Redis enabled and no
\* Next.js cache: one before the clear completes and one after it.
\* clear.calls counts those made after the clear completed.
ClearCallOpts == {o \in CacheOpts : o.useRedis /\ ~o.useNextCache}

ClearCachedStart(c) ==
  /\ Settled(c)
  /\ IF clear.pc = "done" THEN clear.calls = 0 ELSE kind[c] = "none"
  /\ \E o \in ClearCallOpts : CachedCall(c, o)
  /\ clear' = [clear EXCEPT
                 !.calls = IF clear.pc = "done" THEN @ + 1 ELSE @]
  /\ UNCHANGED <<now, draftLookup, redisStore, nextStore, env>>
  /\ UNCHANGED <<entryVars, keyVars, lruVars, originVars, fanVars>>

\* Redis holds what other callers wrote, and possibly an entry for the key of
\* this instance's calls.
ClearInit ==
  /\ InitCalls
  /\ env \in WarmEnvs
  /\ \E e \in (IF env.redis THEN RemoteEntries ELSE {NoEntry}) :
       redisStore = [k \in StoreKeys |->
                       IF k \in CacheKeys THEN e
                       ELSE IF env.redis /\ k \in ForeignKeys
                         THEN CacheEntry(DocOld, Epoch, 1)
                       ELSE NoEntry]
  /\ config = Configured
  /\ keyArgs = <<NoKeyArgs, NoKeyArgs>>

ClearNext ==
  \/ ClearStart
  \/ ClearScanReply
  \/ ClearDelReply
  \/ \E c \in CacheCalls : ClearCachedStart(c)
  \/ \E c \in CacheCalls : RedisGetReply(c)
  \/ \E c \in CacheCalls : ThrottleWake(c)
  \/ \E c \in CacheCalls : CachedReply(c)
  \/ \E c \in CacheCalls : RedisSetReply(c)
  \/ CacheTick

SpecClear == ClearInit /\ [][ClearNext]_vars

\* ------------------------------------------------ clearSanityCache claims
\* The pattern the scan is to use: the given pattern, else sanity:<dataset>:*,
\* else sanity:*.
ScanPattern ==
  IF clear.opts.pattern # "" THEN clear.opts.pattern
  ELSE IF clear.opts.dataset # "" THEN "sanity:" \o clear.opts.dataset \o ":*"
  ELSE "sanity:*"

\* C27: after clearSanityCache({dataset: "production"}) has completed, the
\* first unforced cachedSanityFetch for a production request that is served
\* from the memory cache is not served an entry written before the clear
\* completed.
C27_ClearedDatasetNotServedOldValue ==
  \A c \in CacheCalls :
    (/\ clear.pc = "done"
     /\ clear.opts = [dataset |-> "production", pattern |-> "",
                      clearMemory |-> TRUE, clearRedis |-> TRUE]
     /\ clear.calls = 1
     /\ IsCached(c) /\ pc[c] = "done" /\ ~copts[c].force
     /\ did[c] = {"memGet"}) =>
      \A i \in 1..Len(memory) :
        memory[i].key = copts[c].cacheKey => memory[i].timestamp >= clear.at

\* C28: clearSanityCache never throws; the keys its scan returned all match
\* the scan pattern; and a step removes keys from Redis only as the del of
\* clearSanityCache, which removes the keys the scan returned and no other or
\* (when it failed) possibly none.
C28_RemoteClearByPattern ==
  /\ [](clear.pc # "threw")
  /\ [](\A k \in clear.keys : Matches(ScanPattern, k))
  /\ [][(redisStore' # redisStore
           /\ \E k \in StoreKeys : redisStore[k] # NoEntry
                                     /\ redisStore'[k] = NoEntry) =>
          /\ clear.pc = "del"
          /\ \A k \in StoreKeys :
               redisStore'[k] = IF k \in clear.keys THEN NoEntry
                                                    ELSE redisStore[k]]_vars

\* A clear with a pattern and a dataset has completed: the key of the
\* pattern is gone from Redis, the key of the dataset is still there.
C28_Witness ==
  /\ clear.pc = "done"
  /\ clear.opts.pattern = "v2:*" /\ clear.opts.dataset = "staging"
  /\ clear.keys = {CacheKeyOf("v2:", "production", "q1")}
  /\ redisStore[CacheKeyOf("v2:", "production", "q1")] = NoEntry
  /\ redisStore[CacheKeyOf("", "staging", "q1")] # NoEntry

\* The entries of cache other than the one of key, in their order.
Others(cache, key) == SelectSeq(cache, LAMBDA e : e.key # key)

\* C31: get(key) on an unknown key returns null and changes nothing; on an
\* entry whose valid-until has passed it returns null and removes that entry
\* only; otherwise it returns the stored value and puts the entry last, the
\* other entries keeping their order and the size staying the same.
C31_GetReturnsAndReorders ==
  [][(lastOp'.op = "get" /\ opCount' = opCount + 1) =>
       LET k == lastOp'.key
           held == {memory[i] : i \in 1..Len(memory)}
       IN IF \A e \in held : e.key # k
            THEN lastOp'.returned = Null /\ memory' = memory
            ELSE \E e \in held :
                   /\ e.key = k
                   /\ IF now > e.validUntil
                        THEN /\ lastOp'.returned = Null
                             /\ memory' = Others(memory, k)
                        ELSE /\ lastOp'.returned = e.value
                             /\ memory' = Append(Others(memory, k), e)
                             /\ Len(memory') = Len(memory)]_vars

\* A read hit has moved the entry that was first in a full cache to the end.
C31_Witness ==
  /\ lastOp.op = "get" /\ lastOp.returned = DocA
  /\ Len(memory) = MemCap
  /\ memory[Len(memory)].key = lastOp.key
  /\ memory[Len(memory)].timestamp < memory[1].timestamp

\* A step of clearSanityCache itself.
ClearStep == clear'.pc # clear.pc

C38_ClearAllLeavesNothing ==
  (/\ clear.pc = "done"
   /\ clear.opts = [dataset |-> "", pattern |-> "", clearMemory |-> TRUE,
                    clearRedis |-> TRUE]
   /\ ~clear.redisError
   /\ \A c \in Calls : kind[c] = "none") =>
     /\ memory = <<>>
     /\ env.redis => \A k \in StoreKeys : redisStore[k] = NoEntry

\* ------------------------------------------- the timestamps of an entry
\* A cache write of cachedSanityFetch, followed millisecond by millisecond:
\* memoryCache.set (which builds its entry) or the Redis entry of the populate
\* step. The clock is read once for timestamp and once more for validUntil,
\* and it may advance between the two reads.
StampOpts == {o \in CacheOpts : o.useRedis /\ ~o.useNextCache /\ ~o.force}
StampWrites == {"memSet", "redisSet"}

\* `timestamp: Date.now()`
StampStart(c) ==
  /\ Settled(c)
  /\ \E o \in StampOpts, v \in CacheValues, w \in StampWrites :
       /\ copts' = [copts EXCEPT ![c] = o]
       /\ entry' = [entry EXCEPT ![c] = TimestampRead(v, now)]
       /\ did' = [did EXCEPT ![c] = {w}]
  /\ kind' = [kind EXCEPT ![c] = "stamp"]
  /\ pc' = [pc EXCEPT ![c] = "stamp"]
  /\ UNCHANGED <<now, ret, gateVars, fbVars, storeVars, memoryResult,
                 redisEntry, result, inTry, expect, servedAt, lastDone,
                 entryVars, keyVars, auxVars>>

\* `validUntil: Date.now() + (ttl * 1000)`, and the entry is stored.
StampFinish(c) ==
  /\ pc[c] = "stamp"
  /\ LET o == copts[c]
         e == ValidUntilRead(entry[c], now, o.ttl)
     IN /\ entry' = [entry EXCEPT ![c] = e]
        /\ IF "memSet" \in did[c]
             THEN /\ memory' = MemPut(memory, maxSize, o.cacheKey, e)
                  /\ UNCHANGED redisStore
             ELSE /\ redisStore' = [redisStore EXCEPT ![o.cacheKey] = e]
                  /\ UNCHANGED memory
  /\ pc' = [pc EXCEPT ![c] = "done"]
  /\ UNCHANGED <<now, kind, ret, gateVars, fbVars, nextStore, env, copts,
                 memoryResult, redisEntry, result, inTry, did, expect,
                 servedAt, lastDone, entryVars, keyVars, auxVars>>

\* Date.now() advances by a millisecond.
StampTick ==
  /\ now < Epoch + StampMaxTicks
  /\ now' = now + 1
  /\ UNCHANGED <<pc, kind, ret, gateVars, fbVars, cacheVars, entryVars,
                 keyVars, auxVars>>

StampInit ==
  /\ InitCalls
  /\ env = [redis |-> TRUE, next |-> FALSE]
  /\ redisStore = EmptyStore
  /\ config = Configured
  /\ keyArgs = <<NoKeyArgs, NoKeyArgs>>

StampNext ==
  \/ \E c \in CacheCalls : StampStart(c)
  \/ \E c \in CacheCalls : StampFinish(c)
  \/ StampTick

SpecStamp == StampInit /\ [][StampNext]_vars

\* C32: every entry in the memory cache or in Redis has
\* validUntil = timestamp + ttl * 1000 for the ttl it was written with.
C32_ValidUntilIsCreatedPlusTtl ==
  LET WellStamped(e) ==
        \E ttl \in Ttls : e.validUntil = e.timestamp + ttl * MsPerSecond
  IN /\ \A i \in 1..Len(memory) : WellStamped(memory[i])
     /\ \A k \in StoreKeys :
          redisStore[k] # NoEntry => WellStamped(redisStore[k])

\* --------------------------------- two callers of cachedSanityFetch
\* Two overlapping callers of cachedSanityFetch for one dataset, query and
\* params, which differ at most in useCdn and useAuth; no Redis, no
\* next/cache. The origin answers a request when it reads it: the published
\* document of that moment, or the draft to an authenticated request. The
\* document is republished once (DocA, then DocB).
PairKeys == {CacheKeyOf("", "production", "q1")}
PairOpts == [cacheKey : PairKeys, ttl : Ttls, force : {FALSE},
             useRedis : {FALSE}, useNextCache : {FALSE}, fetch : FetchOpts]

\* Each caller makes its call once.
PairStart(c) ==
  /\ kind[c] = "none"
  /\ \E o \in PairOpts : CachedCall(c, o)
  /\ inFlight' = [inFlight EXCEPT ![c] = NoRet]
  /\ UNCHANGED <<now, draftLookup, redisStore, nextStore, env, entryVars,
                 keyVars, lruVars, fanVars, clear, origin>>

\* The origin reads the request of c and sends its answer.
OriginRead(c) ==
  /\ pc[c] = "net"
  /\ kind[c] = "cached"
  /\ inFlight[c] = NoRet
  /\ inFlight' = [inFlight EXCEPT ![c] =
                    Ok(IF fopts[c].useAuth THEN DocDraft ELSE origin)]
  /\ UNCHANGED <<now, pc, kind, ret, gateVars, fbVars, cacheVars, entryVars,
                 keyVars, lruVars, fanVars, clear, origin>>

\* An editor publishes a new version of the document.
OriginUpdate ==
  /\ origin = DocA
  /\ origin' = DocB
  /\ UNCHANGED <<now, pc, kind, ret, gateVars, fbVars, cacheVars, entryVars,
                 keyVars, lruVars, fanVars, clear, inFlight>>

\* The answer reaches c.
PairReply(c) ==
  /\ pc[c] = "net"
  /\ kind[c] = "cached"
  /\ inFlight[c] # NoRet
  /\ CachedDeliver(c, inFlight[c])
  /\ UNCHANGED <<now, kind, draftLookup, redisStore, env, copts,
                 memoryResult, redisEntry, expect, servedAt, entryVars,
                 keyVars, auxVars>>

PairInit ==
  /\ InitCalls
  /\ env = NoEnv
  /\ redisStore = EmptyStore
  /\ config = Configured
  /\ keyArgs = <<NoKeyArgs, NoKeyArgs>>

PairNext ==
  \/ \E c \in Calls : PairStart(c)
  \/ \E c \in Calls : ThrottleWake(c)
  \/ \E c \in Calls : OriginRead(c)
  \/ \E c \in Calls : PairReply(c)
  \/ OriginUpdate
  \/ GateTick

SpecPair == PairInit /\ [][PairNext]_vars

\* C35: a cachedSanityFetch call with useAuth = false never returns the value
\* of an authenticated (perspective=previewDrafts) fetch, and two calls that
\* differ in useAuth or useCdn share no cache entry: a call served from the
\* memory layer is served an entry that a call with its own useAuth and
\* useCdn stored.
ReturnsNoDraft(c) ==
  (IsCached(c) /\ pc[c] = "done" /\ ~copts[c].fetch.useAuth)
    => ret[c] # Ok(DocDraft)
ServedEntryOf(c, c2) ==
  /\ IsCached(c) /\ servedAt[c] # None
  /\ IsCached(c2) /\ "memSet" \in did[c2]
  /\ copts[c2].cacheKey = copts[c].cacheKey
C35_DraftsDoNotLeakThroughCache ==
  /\ \A c \in Calls : ReturnsNoDraft(c)
  /\ \A c \in Calls : \A c2 \in Calls \ {c} :
       ServedEntryOf(c, c2) => copts[c].fetch = copts[c2].fetch

\* The value the memory cache holds for key k, Null when it holds none.
MemValueOf(cache, k) ==
  IF MemIndex(cache, k) = 0 THEN Null ELSE cache[MemIndex(cache, k)].value

\* C36: once the memory layer holds, for a key, the value read from the
\* origin later (DocB), no step replaces it with the value read from the
\* origin earlier (DocA).
C36_MemoryValueNeverRegresses ==
  [][\A k \in PairKeys :
       MemValueOf(memory, k) = DocB => MemValueOf(memory', k) # DocA]_vars
=============================================================================
